---- MODULE Spec2Model ----
(***************************************************************************)
(* A model of bulker's task orchestration (src/runner.go): partitioning    *)
(* of the input into tasks, the bounded worker pool, the cancellation      *)
(* protocol, the forwarding of child output into the shared output file    *)
(* and the backup of a pre-existing output file.                           *)
(*                                                                         *)
(* The specifications of the module:                                       *)
(*   PartSpec    createTasks over a range of inputs (pure partitioning)    *)
(*   Spec        one Run from createTasks to the return of Run             *)
(*   BackupSpec  a sequence of runs against one file system (set-up only)  *)
(*   SpliceSpec  cleanupFunc over a range of temp output files             *)
(*   SinkSpec    writeToOutput step by step, called by several tasks       *)
(*   CliSpec     Spec entered from the command line, any value of -t       *)
(* FairSpec is Spec with the fairness the Go scheduler gives goroutines.   *)
(***************************************************************************)
EXTENDS Integers, Sequences, FiniteSets, TLC

\* ------------------------------------------------------------------ bounds
MaxLines == 2
MaxWorkers == 2
MaxOut == 1
MaxPartLines == 12
MaxPartWorkers == 5
MaxRuns == 3
MaxClock == 2
MaxContent == 4
MaxWriters == 2
MaxEmit == 3
MaxArgs == 3
MaxTaskIndex == 1

VARIABLES
    \* RunnerConfig / ToolConfig
    totalLines, workers, mode, useStdout, header, toolOutput,
    \* the lines of the input file as the scanner of readInputFile yields them
    rawInput,
    \* the last command a FileOutputStrategy has built: the user arguments and
    \* task index it was called with, the argv and the temp path it returned
    built,
    \* Runner
    tasks, runPc, cancelClosed, semaphore, interruptChan, outputFile, sink,
    \* per task goroutine (runTasks closure, runTask, runTaskWithCommand)
    pc, child, emitted, scanned, pipeClosed, outFwd, errFwd, tempFile, chunkFile,
    \* history (not program state): what the claims refer to
    cancelCause, cancelSnap, closeCount,
    \* the error monitor has handed back to Run ("none" until it returns)
    runErr,
    \* what Run itself has written at the start of the output file; sink is what
    \* has been appended after it
    headerLine,
    \* file system and clock, for the backup of the output file
    files, now, runNo, bpc, tickerStart, backupTs, runStartFiles, abortedBy, backedUp,
    \* writeToOutput step by step: the mutex, each caller's position in the
    \* call, the content it passes, how much of it is written, the calls it
    \* has made, and the bytes of the output file
    outputMutex, wpc, wcontent, wwritten, wcalls, fileBytes

confVars == <<totalLines, workers, mode, useStdout, header, toolOutput, rawInput, built>>
runVars  == <<tasks, runPc, cancelClosed, semaphore, interruptChan, outputFile, sink>>
taskVars == <<pc, child, emitted, scanned, pipeClosed, outFwd, errFwd, tempFile, chunkFile>>
histVars == <<cancelCause, cancelSnap, closeCount>>
fsVars   == <<files, now, runNo, bpc, tickerStart, backupTs, runStartFiles, abortedBy, backedUp>>
sinkVars == <<outputMutex, wpc, wcontent, wwritten, wcalls, fileBytes>>
vars     == <<confVars, runVars, taskVars, histVars, fsVars, sinkVars, runErr, headerLine>>

\* ------------------------------------------------------------- TaskStatus
TaskPending   == "Pending"
TaskRunning   == "Running"
TaskCompleted == "Completed"
TaskFailed    == "Failed"

\* ------------------------------------------------- strings as char sequences
Digits == <<"0", "1", "2", "3", "4", "5", "6", "7", "8", "9">>

RECURSIVE Itoa(_)
\* fmt's %d of a non-negative int
Itoa(n) == IF n < 10 THEN <<Digits[n + 1]>>
           ELSE Itoa(n \div 10) \o <<Digits[(n % 10) + 1]>>

DigitVal(c) == CHOOSE d \in 0..9 : Digits[d + 1] = c

IsDigit(c) == \E d \in 0..9 : Digits[d + 1] = c

RECURSIVE AtoiVal(_)
AtoiVal(s) == IF Len(s) = 0 THEN 0
              ELSE 10 * AtoiVal(SubSeq(s, 1, Len(s) - 1)) + DigitVal(s[Len(s)])

RECURSIVE StripZeros(_)
\* the digits without their leading zeros
StripZeros(s) == IF Len(s) > 0 /\ s[1] = "0" THEN StripZeros(Tail(s)) ELSE s

RECURSIVE DigitsLeq(_, _)
\* for digit sequences of one length: a <= b as numbers
DigitsLeq(a, b) ==
    IF Len(a) = 0 THEN TRUE
    ELSE IF DigitVal(a[1]) < DigitVal(b[1]) THEN TRUE
    ELSE IF DigitVal(a[1]) > DigitVal(b[1]) THEN FALSE
    ELSE DigitsLeq(Tail(a), Tail(b))

\* the digits of 1<<63 - 1 and of 1<<63, the largest magnitudes of a
\* non-negative and of a negative int
MaxIntDigits == <<"9", "2", "2", "3", "3", "7", "2", "0", "3", "6", "8", "5", "4", "7",
                  "7", "5", "8", "0", "7">>

MinIntDigits == <<"9", "2", "2", "3", "3", "7", "2", "0", "3", "6", "8", "5", "4", "7",
                  "7", "5", "8", "0", "8">>

\* the magnitude digs fits an int of 64 bits
InIntRange(digs, neg) ==
    LET d == StripZeros(digs)
    IN \/ Len(d) < Len(MaxIntDigits)
       \/ Len(d) = Len(MaxIntDigits) /\ DigitsLeq(d, IF neg THEN MinIntDigits ELSE MaxIntDigits)

\* strconv.Atoi: an optional sign, then decimal digits, at least one; an error
\* on anything else and on a number outside the range of int
Atoi(s) ==
    LET signed == Len(s) > 0 /\ s[1] \in {"+", "-"}
        neg == Len(s) > 0 /\ s[1] = "-"
        digs == IF signed THEN Tail(s) ELSE s
    IN IF Len(digs) > 0 /\ (\A i \in 1..Len(digs) : IsDigit(digs[i])) /\ InIntRange(digs, neg)
       THEN [ok |-> TRUE, val |-> IF neg THEN 0 - AtoiVal(digs) ELSE AtoiVal(digs)]
       ELSE [ok |-> FALSE, val |-> 0]

RECURSIVE Split(_, _)
\* strings.Split(s, sep) for a one-character separator
Split(s, sep) ==
    IF \E i \in 1..Len(s) : s[i] = sep
    THEN LET i == CHOOSE k \in 1..Len(s) :
                      s[k] = sep /\ \A j \in 1..(k - 1) : s[j] # sep
         IN <<SubSeq(s, 1, i - 1)>> \o Split(SubSeq(s, i + 1, Len(s)), sep)
    ELSE <<s>>

RECURSIVE JoinNoSep(_, _)
\* faulty variant of Join: the separator is left out
JoinNoSep(elems, sep) ==
    IF Len(elems) = 0 THEN <<>> ELSE elems[1] \o JoinNoSep(Tail(elems), sep)

RECURSIVE Join(_, _)
\* strings.Join(elems, sep)
Join(elems, sep) ==
    IF Len(elems) = 0 THEN <<>>
    ELSE IF Len(elems) = 1 THEN elems[1]
    ELSE elems[1] \o <<sep>> \o Join(Tail(elems), sep)

RECURSIVE TrimLeft(_, _)
\* strings.TrimLeft(s, cutset)
TrimLeft(s, cutset) ==
    IF Len(s) > 0 /\ s[1] \in cutset THEN TrimLeft(Tail(s), cutset) ELSE s

RECURSIVE TrimRight(_, _)
\* strings.TrimRight(s, cutset)
TrimRight(s, cutset) ==
    IF Len(s) > 0 /\ s[Len(s)] \in cutset
    THEN TrimRight(SubSeq(s, 1, Len(s) - 1), cutset) ELSE s

\* strings.Trim(s, cutset): the characters of cutset go from both ends only
Trim(s, cutset) == TrimRight(TrimLeft(s, cutset), cutset)

VT == "VT"

NEL == "NEL"

NBSP == "NBSP"

\* the runes above Latin-1 that unicode.IsSpace holds for (the White_Space
\* table): U+1680, U+2000 to U+200A, U+2028, U+2029, U+202F, U+205F and U+3000,
\* each written as one character
WideSpace == {"U+1680", "U+2000", "U+2001", "U+2002", "U+2003", "U+2004", "U+2005",
              "U+2006", "U+2007", "U+2008", "U+2009", "U+200A", "U+2028", "U+2029",
              "U+202F", "U+205F", "U+3000"}

\* white space for strings.TrimSpace (unicode.IsSpace): tab, newline, vertical
\* tab, form feed, carriage return, space, U+0085 and U+00A0, and the runes of
\* WideSpace; the characters TLA+ has no escape for are written as VT, NEL and
\* NBSP
Space == {" ", "\t", "\n", VT, "\f", "\r", NEL, NBSP} \cup WideSpace

\* strings.TrimSpace(s)
TrimSpace(s) == Trim(s, Space)

\* the byte "\x00", as one character
NUL == "NUL"

\* ------------------------------------------------ ArjunStrategy, file output
\* the words of a command line; a word is a sequence of the pieces it is put
\* together from, a flag or a value the user gave being one piece
Arjun == <<"arjun">>
FlagI == <<"-i">>
FlagO == <<"-o">>
FlagOJ == <<"-oJ">>
FlagOT == <<"-oT">>
FlagOB == <<"-oB">>
FlagT == <<"-t">>
FlagThreads == <<"--threads">>
FlagD == <<"-d">>
FlagDelay == <<"--delay">>
FlagRateLimit == <<"--rate-limit">>
FlagTimeoutShort == <<"-T">>
FlagTimeout == <<"--timeout">>
UserValue == <<"f">>

\* the user arguments tried: the four output flags, another flag and a value
ArgWords == {FlagO, FlagOJ, FlagOT, FlagOB, FlagT, UserValue}

ArgLists == UNION {[1..n -> ArgWords] : n \in 0..MaxArgs}

\* fmt.Sprintf("chunk_%d.txt", taskIndex): the path PrepareInput returns
ChunkPath(taskIndex) == <<"chunk_">> \o Itoa(taskIndex) \o <<".txt">>

\* ArjunStrategy.HandlesFileOutput: the user arguments hold an output flag
HandlesFileOutput(args) ==
    \E i \in 1..Len(args) : args[i] \in {FlagO, FlagOJ, FlagOT, FlagOB}

\* fmt.Sprintf("bulker_arjun_output_%d.tmp", taskIndex)
ArjunTempPath(taskIndex) == <<"bulker_arjun_output_">> \o Itoa(taskIndex) \o <<".tmp">>

\* one pass of the loop over args (part_006 lines 638-665)
ArjunArg(acc, arg, tempOutputFile) ==
    IF acc.skipNext THEN [acc EXCEPT !.skipNext = FALSE]
    ELSE IF arg = FlagO \/ arg = FlagOJ \/ arg = FlagOT
         THEN [acc EXCEPT !.cmdParts = @ \o <<arg, tempOutputFile>>,
                          !.skipNext = TRUE,
                          !.outputFlagFound = TRUE]
    ELSE IF arg = FlagOB
         THEN [acc EXCEPT !.cmdParts = Append(@, arg),
                          !.outputFlagFound = TRUE]
    ELSE [acc EXCEPT !.cmdParts = Append(@, arg),
                     !.hasThreads = @ \/ arg = FlagT \/ arg = FlagThreads,
                     !.hasDelay = @ \/ arg = FlagD \/ arg = FlagDelay,
                     !.hasRateLimit = @ \/ arg = FlagRateLimit,
                     !.hasTimeout = @ \/ arg = FlagTimeoutShort \/ arg = FlagTimeout]

RECURSIVE ArjunArgs(_, _, _, _)
\* the loop over args from position i on
ArjunArgs(acc, args, i, tempOutputFile) ==
    IF i > Len(args) THEN acc
    ELSE ArjunArgs(ArjunArg(acc, args[i], tempOutputFile), args, i + 1, tempOutputFile)

\* ArjunStrategy.BuildCommandWithFileOutput: the argv and the temp output path
BuildCommandWithFileOutput(inputData, args, taskIndex) ==
    LET tempOutputFile == ArjunTempPath(taskIndex)
        start == [cmdParts |-> <<Arjun, FlagI, inputData>>,
                  skipNext |-> FALSE, outputFlagFound |-> FALSE,
                  hasThreads |-> FALSE, hasDelay |-> FALSE,
                  hasRateLimit |-> FALSE, hasTimeout |-> FALSE]
        end == ArjunArgs(start, args, 1, tempOutputFile)
        p1 == end.cmdParts \o (IF ~end.hasThreads THEN <<FlagT, <<"10">>>> ELSE <<>>)
        p2 == p1 \o (IF ~end.hasDelay THEN <<FlagD, <<"0">>>> ELSE <<>>)
        p3 == p2 \o (IF ~end.hasRateLimit THEN <<FlagRateLimit, <<"50">>>> ELSE <<>>)
        p4 == p3 \o (IF ~end.hasTimeout THEN <<FlagTimeoutShort, <<"5">>>> ELSE <<>>)
        p5 == p4 \o (IF ~end.outputFlagFound THEN <<FlagOT, tempOutputFile>> ELSE <<>>)
    IN [cmdParts |-> p5, tempOutputFile |-> tempOutputFile]

\* nothing has been built
NoBuild == [args |-> <<>>, taskIndex |-> 0, cmdParts |-> <<>>, tempOutputFile |-> <<>>]

\* the user arguments of a run (config.CommandArgs), no command built yet
ArgsGiven(args) == [NoBuild EXCEPT !.args = args]

LinesWord == <<"l", "i", "n", "e", "s">>

\* fmt.Sprintf("lines_%d_%d", startLine, endLine)
RangePayload(startLine, endLine) ==
    LinesWord \o <<"_">> \o Itoa(startLine) \o <<"_">> \o Itoa(endLine)

\* Runner.parseLineRange
parseLineRange(rangeStr) ==
    LET parts == Split(rangeStr, "_")
    IN IF Len(parts) # 3 \/ parts[1] # LinesWord
       THEN [ok |-> FALSE, startLine |-> 0, endLine |-> 0]
       ELSE IF ~Atoi(parts[2]).ok \/ ~Atoi(parts[3]).ok
            THEN [ok |-> FALSE, startLine |-> 0, endLine |-> 0]
            ELSE [ok |-> TRUE, startLine |-> Atoi(parts[2]).val,
                                endLine |-> Atoi(parts[3]).val]

RECURSIVE chunkLoopExclusive(_, _, _)
\* faulty variant of chunkLoop: the end line is left out
chunkLoopExclusive(i, endLine, lines) ==
    IF i < endLine /\ i < Len(lines)
    THEN <<lines[i + 1]>> \o chunkLoopExclusive(i + 1, endLine, lines)
    ELSE <<>>

RECURSIVE chunkLoop(_, _, _)
\* runTask, lines 402-409: for i := startLine; i <= endLine && i <
\* len(r.inputLines); i++ the line i and a newline are written to the chunk
\* file. The result is the lines of the file (lines is 1-based here)
chunkLoop(i, endLine, lines) ==
    IF i <= endLine /\ i < Len(lines)
    THEN <<lines[i + 1]>> \o chunkLoop(i + 1, endLine, lines)
    ELSE <<>>

\* a line of the input file: empty, or a blank
RawLines == {<<>>, <<" ">>}

\* the input files of up to MaxLines lines
RawInputs == UNION {[1..n -> RawLines] : n \in 0..MaxLines}

\* readInputFile, line 108: line != ""
NonEmptyLine(line) == line # <<>>

\* Runner.readInputFile, lines 105-111: the lines of the input in order,
\* without the empty ones
readInputFile(raw) == SelectSeq(raw, NonEmptyLine)

\* the i-th (0-based) non-blank input line kept by readInputFile
InputLine(i) == <<"u">> \o Itoa(i)

\* r.inputLines after readInputFile, for an input of n non-blank lines
inputLines(n) == [i \in 1..n |-> InputLine(i - 1)]

\* ------------------------------------------------------------ createTasks
\* faulty variant of ChunkSize: the remainder is not rounded up
ChunkSizeFloor(n, w) == IF n \div w < 1 THEN 1 ELSE n \div w

Abs(a) == IF a < 0 THEN -a ELSE a

\* Go's "/" on ints, b # 0: the quotient is truncated toward zero
GoDiv(a, b) ==
    IF (a >= 0) = (b > 0) THEN Abs(a) \div Abs(b) ELSE -(Abs(a) \div Abs(b))

\* Go's "%" on ints, b # 0: the remainder has the sign of the dividend
GoMod(a, b) == a - b * GoDiv(a, b)

\* faulty variant of ChunkSize: one is added whether or not there is a remainder
ChunkSizePlusOne(n, w) == GoDiv(n, w) + 1

\* chunkSize of the "multiple" case (Workers # 0)
ChunkSize(n, w) ==
    LET c0 == GoDiv(n, w)
        c1 == IF GoMod(n, w) # 0 THEN c0 + 1 ELSE c0
    IN IF c1 < 1 THEN 1 ELSE c1

RECURSIVE MultipleLoopInclusive(_, _, _, _)
\* faulty variant of MultipleLoop: the payload carries the exclusive end of the range
MultipleLoopInclusive(startLine, taskID, n, chunkSize) ==
    IF startLine < n
    THEN LET e0 == startLine + chunkSize
             endLine == IF e0 > n THEN n ELSE e0
         IN <<[ID |-> taskID,
               InputData |-> RangePayload(startLine, endLine),
               Status |-> TaskPending,
               EndTime |-> 0]>>
            \o MultipleLoopInclusive(startLine + chunkSize, taskID + 1, n, chunkSize)
    ELSE <<>>

RECURSIVE MultipleLoop(_, _, _, _)
\* the for loop of the "multiple" case, from startLine with the next taskID
MultipleLoop(startLine, taskID, n, chunkSize) ==
    IF startLine < n
    THEN LET e0 == startLine + chunkSize
             endLine == IF e0 > n THEN n ELSE e0
         IN <<[ID |-> taskID,
               InputData |-> RangePayload(startLine, endLine - 1),
               Status |-> TaskPending,
               EndTime |-> 0]>>
            \o MultipleLoop(startLine + chunkSize, taskID + 1, n, chunkSize)
    ELSE <<>>

\* the range loop of the "single" case
SingleLoop(n) ==
    [i \in 1..n |-> [ID |-> i - 1, InputData |-> inputLines(n)[i], Status |-> TaskPending,
                     EndTime |-> 0]]

\* Runner.createTasks: r.tasks for n input lines, w workers and the tool's mode
createTasks(n, w, m) ==
    IF n = 0 THEN <<>>
    ELSE IF m = "multiple" THEN MultipleLoop(0, 0, n, ChunkSize(n, w))
    ELSE IF m = "single" THEN SingleLoop(n)
    ELSE <<>>

\* ------------------------------------------------------- shared operators
Tasks == DOMAIN tasks

StatusOf(t) == tasks[t].Status

\* faulty variant of updateTaskStatus: the end time is written for every status
updateTaskStatusStamps(t, status) ==
    [tasks EXCEPT ![t].Status = status, ![t].EndTime = @ + 1]

\* Runner.updateTaskStatus (and the assignment of lines 334-338, which sets
\* Running). EndTime is 0 for the zero time of a new Task, else the number of
\* assignments made to the field
updateTaskStatus(t, status) ==
    [tasks EXCEPT ![t].Status = status,
                  ![t].EndTime = IF status \in {TaskCompleted, TaskFailed} THEN @ + 1 ELSE @]

\* faulty variant of CancelObserved: the checks read a channel that is never closed
CancelNeverObserved == FALSE

\* a non-blocking receive "case <-r.cancelChan:" succeeds iff the channel is closed
CancelObserved == cancelClosed

\* faulty variant of SlotFree: a semaphore without a capacity
SlotFreeAlways == TRUE

\* "case semaphore <- struct{}{}:" can proceed iff the buffered channel has room
SlotFree == semaphore < workers

\* faulty variant of WakeOnClose: a waiting goroutine polls again after the close
\* instead of being resumed in the cancel case
WakeOnCloseRetry(p) == [t \in DOMAIN p |-> IF p[t] = "parked" THEN "select" ELSE p[t]]

\* close(r.cancelChan) resolves the select of every goroutine parked in it:
\* the runtime dequeues each from the channel's wait queue with the cancel case chosen
WakeOnClose(p) == [t \in DOMAIN p |-> IF p[t] = "parked" THEN "cancelCase" ELSE p[t]]

\* the state of every task at the moment of the trigger (history)
Snapshot(p) == [t \in DOMAIN p |-> [pc |-> p[t], status |-> StatusOf(t)]]

\* faulty variant of cancelOnceFires: the close is not guarded by the Once
cancelOnceAlways == TRUE

\* r.cancelOnce.Do runs its function in the first call only; that call is the
\* one that closes the channel
cancelOnceFires == ~cancelClosed

\* faulty variant of cancelTasks: the call returns without closing the channel
cancelTasksSkipped(p, cause) ==
    /\ pc' = p
    /\ UNCHANGED <<cancelClosed, cancelCause, cancelSnap, closeCount>>

\* Runner.cancelTasks called with the goroutines at p; cause is who called
\* (the caller updates the task list, so tasks is left to it).
\* closeCount counts the executions of close(r.cancelChan)
cancelTasks(p, cause) ==
    IF cancelOnceFires
    THEN /\ cancelClosed' = TRUE
         /\ closeCount' = closeCount + 1
         /\ pc' = WakeOnClose(p)
         /\ cancelCause' = cause
         /\ cancelSnap' = Snapshot(p)
    ELSE /\ pc' = p
         /\ UNCHANGED <<cancelClosed, cancelCause, cancelSnap, closeCount>>

\* faulty variant of writeToOutput: the content is put at the start of the file
writeToOutputFront(content) ==
    IF outputFile = "open" /\ content # <<>> THEN <<content>> \o sink ELSE sink

\* Runner.writeToOutput: the sink after appending content
writeToOutput(content) ==
    IF outputFile = "open" /\ content # <<>> THEN Append(sink, content) ELSE sink

\* "<-semaphore": a sender parked on the full channel gets the slot handed over,
\* otherwise the channel holds one element less
ReleaseSlot(t) ==
    \/ /\ \E u \in Tasks :
            /\ pc[u] = "parked"
            /\ pc' = [pc EXCEPT ![t] = "returned", ![u] = "check1"]
       /\ UNCHANGED semaphore
    \/ /\ ~\E u \in Tasks : pc[u] = "parked"
       /\ semaphore' = semaphore - 1
       /\ pc' = [pc EXCEPT ![t] = "returned"]

\* the done channel of runTaskWithCommand is closed when the function returns
doneClosed(t) == pc[t] \in {"cleanup", "release", "returned"}

\* Runner.checkAllCompleted
checkAllCompleted ==
    Cardinality({t \in Tasks : StatusOf(t) \in {TaskCompleted, TaskFailed}}) = Len(tasks)

\* Runner.checkAllTasksStopped
checkAllTasksStopped == \A t \in Tasks : StatusOf(t) # TaskRunning

\* --------------------------------------------------------------- Run, part 1
\* main.go, runCommand, lines 100-152: the flags are checked for an input
\* file, an output file, a known tool and a wordlist where the tool needs one,
\* and the program exits when one is missing; the value of -t/--threads goes
\* into RunnerConfig.Workers as it is, and NewRunner and the set-up of Run do
\* not look at it either
RunCommand ==
    /\ runPc = "runCommand"
    /\ bpc = "new"
    /\ \/ /\ runPc' = "setup"
          /\ UNCHANGED <<bpc, abortedBy>>
       \/ /\ abortedBy' = "flags"
          /\ bpc' = "exit"
          /\ UNCHANGED runPc
    /\ UNCHANGED <<confVars, headerLine, runErr, tasks, cancelClosed, semaphore, interruptChan, outputFile, sink,
                   taskVars, histVars, files, now, runNo, tickerStart, backupTs, runStartFiles,
                   backedUp, sinkVars>>

\* faulty variant of SyncClose: closing the file empties it
SyncCloseTruncates(s) == <<>>

\* r.outputFile.Sync() and Close() (lines 175-176 and 541-542) leave the
\* content of the file as it is
SyncClose(s) == s

\* line 254: totalLines / r.config.Workers panics for a divisor of zero
createTasksPanics(n, w, m) == n # 0 /\ m = "multiple" /\ w = 0

\* line 301: make(chan struct{}, n) panics for a negative size
makeChanPanics(w) == w < 0

\* Run, lines 186-187: createTasks; runTasks then starts one goroutine per task.
\* A panic in either ends the process: as it unwinds Run, the deferred function
\* of lines 173-178 syncs and closes the output file
CreateTasks ==
    /\ runPc = "createTasks"
    /\ tasks' = IF createTasksPanics(totalLines, workers, mode) THEN <<>>
                ELSE createTasks(totalLines, workers, mode)
    /\ runPc' = IF createTasksPanics(totalLines, workers, mode) \/ makeChanPanics(workers)
                THEN "panic" ELSE "runTasks"
    /\ LET N == IF createTasksPanics(totalLines, workers, mode) THEN 0
                ELSE Len(createTasks(totalLines, workers, mode))
       IN /\ pc' = [t \in 1..N |-> "select"]
          /\ child' = [t \in 1..N |-> "none"]
          /\ emitted' = [t \in 1..N |-> 0]
          /\ scanned' = [t \in 1..N |-> 0]
          /\ pipeClosed' = [t \in 1..N |-> FALSE]
          /\ outFwd' = [t \in 1..N |-> "none"]
          /\ errFwd' = [t \in 1..N |-> "none"]
          /\ tempFile' = [t \in 1..N |-> FALSE]
          /\ chunkFile' = [t \in 1..N |-> FALSE]
    /\ outputFile' = IF createTasksPanics(totalLines, workers, mode) \/ makeChanPanics(workers)
                     THEN (IF outputFile = "nil" THEN "nil" ELSE "closed")
                     ELSE outputFile
    /\ sink' = IF (createTasksPanics(totalLines, workers, mode) \/ makeChanPanics(workers))
                  /\ outputFile = "open"
               THEN SyncClose(sink) ELSE sink
    /\ UNCHANGED <<confVars, headerLine, runErr, cancelClosed, semaphore, interruptChan,
                   histVars, fsVars, sinkVars>>

\* ------------------------------------------------- runTasks: the goroutines
\* the select of the task goroutine: a ready case is taken, chosen at random
\* when both are ready; with none ready the goroutine parks on both channels
Select(t) ==
    /\ runPc = "runTasks"
    /\ pc[t] = "select"
    /\ \/ /\ CancelObserved
          /\ pc' = [pc EXCEPT ![t] = "cancelCase"]
          /\ UNCHANGED semaphore
       \/ /\ SlotFree
          /\ semaphore' = semaphore + 1
          /\ pc' = [pc EXCEPT ![t] = "check1"]
       \/ /\ ~CancelObserved /\ ~SlotFree
          /\ pc' = [pc EXCEPT ![t] = "parked"]
          /\ UNCHANGED semaphore
    /\ UNCHANGED <<confVars, headerLine, runErr, tasks, runPc, cancelClosed, interruptChan, outputFile, sink,
                   child, emitted, scanned, pipeClosed, outFwd, errFwd, tempFile, chunkFile,
                   histVars, fsVars, sinkVars>>

\* the cancel case of the select: log and return, the task is left as it is
SelectCancelled(t) ==
    /\ pc[t] = "cancelCase"
    /\ pc' = [pc EXCEPT ![t] = "returned"]
    /\ UNCHANGED <<confVars, headerLine, runErr, runVars, child, emitted, scanned, pipeClosed, outFwd, errFwd,
                   tempFile, chunkFile, histVars, fsVars, sinkVars>>

\* a check of the cancellation token in runTask / runTaskWithCommand:
\* cancelled => Failed and return to onCancel, else go on to onPass
CancelCheck(t, at, onCancel, onPass) ==
    /\ pc[t] = at
    /\ IF CancelObserved
       THEN /\ tasks' = updateTaskStatus(t, TaskFailed)
            /\ pc' = [pc EXCEPT ![t] = onCancel]
       ELSE /\ pc' = [pc EXCEPT ![t] = onPass]
            /\ UNCHANGED tasks
    /\ UNCHANGED <<confVars, headerLine, runErr, runPc, cancelClosed, semaphore, interruptChan, outputFile, sink,
                   child, emitted, scanned, pipeClosed, outFwd, errFwd, tempFile, chunkFile,
                   histVars, fsVars, sinkVars>>

\* runTask, lines 325-332 (cleanupFunc is not yet deferred)
CheckBeforeStart(t) == CancelCheck(t, "check1", "release", "setRunning")

\* runTask, lines 334-338
SetRunning(t) ==
    /\ pc[t] = "setRunning"
    /\ tasks' = updateTaskStatus(t, TaskRunning)
    /\ pc' = [pc EXCEPT ![t] = "check2"]
    /\ UNCHANGED <<confVars, headerLine, runErr, runPc, cancelClosed, semaphore, interruptChan, outputFile, sink,
                   child, emitted, scanned, pipeClosed, outFwd, errFwd, tempFile, chunkFile,
                   histVars, fsVars, sinkVars>>

\* runTask, lines 374-381
CheckDuringSetup(t) == CancelCheck(t, "check2", "cleanup", "stage")

\* faulty variant of Stage: a staging error also triggers the cancellation token
StageFailFast(t) ==
    /\ pc[t] = "stage"
    /\ IF mode = "multiple"
       THEN \E io \in {"ok", "createFails", "writeFails"} :
              /\ chunkFile' = [chunkFile EXCEPT ![t] = (io # "createFails")]
              /\ IF io = "ok"
                 THEN /\ pc' = [pc EXCEPT ![t] = "check3"]
                      /\ UNCHANGED <<tasks, cancelClosed, histVars>>
                 ELSE /\ tasks' = updateTaskStatus(t, TaskFailed)
                      /\ cancelTasks([pc EXCEPT ![t] = "cleanup"], "failure")
       ELSE /\ pc' = [pc EXCEPT ![t] = "check3"]
            /\ UNCHANGED <<tasks, chunkFile, cancelClosed, histVars>>
    /\ UNCHANGED <<confVars, headerLine, runErr, runPc, semaphore, interruptChan, outputFile, sink,
                   child, emitted, scanned, pipeClosed, outFwd, errFwd, tempFile,
                   fsVars, sinkVars>>

\* runTask, lines 385-428: stage the chunk file (multiple mode) and build the command;
\* creating or writing the chunk file may fail
Stage(t) ==
    /\ pc[t] = "stage"
    /\ IF mode = "multiple"
       THEN IF ~parseLineRange(tasks[t].InputData).ok
            THEN /\ tasks' = updateTaskStatus(t, TaskFailed)
                 /\ pc' = [pc EXCEPT ![t] = "cleanup"]
                 /\ UNCHANGED chunkFile
            ELSE \E io \in {"ok", "createFails", "writeFails"} :
                   /\ chunkFile' = [chunkFile EXCEPT ![t] = (io # "createFails")]
                   /\ IF io = "ok"
                      THEN /\ pc' = [pc EXCEPT ![t] = "check3"]
                           /\ UNCHANGED tasks
                      ELSE /\ tasks' = updateTaskStatus(t, TaskFailed)
                           /\ pc' = [pc EXCEPT ![t] = "cleanup"]
       ELSE /\ pc' = [pc EXCEPT ![t] = "check3"]
            /\ UNCHANGED <<tasks, chunkFile>>
    /\ UNCHANGED <<confVars, headerLine, runErr, runPc, cancelClosed, semaphore, interruptChan, outputFile, sink,
                   child, emitted, scanned, pipeClosed, outFwd, errFwd, tempFile,
                   histVars, fsVars, sinkVars>>

\* runTaskWithCommand, lines 615-622
CheckBeforeCommand(t) == CancelCheck(t, "check3", "cleanup", "start")

\* runTaskWithCommand, lines 624-736: pipes and cmd.Start, either of which may fail;
\* on success the child runs and the forwarders and the watcher are started.
\* emitted is the number of lines the child writes to its standard output before
\* it is gone: the pipe buffers them, so when each is written shows only in when
\* the forwarder can first read it, and it reads at any time from now on.
\* After a failure there is no process: the task is Failed and the function returns
Start(t) ==
    /\ pc[t] = "start"
    /\ \/ /\ tasks' = updateTaskStatus(t, TaskFailed)
          /\ child' = [child EXCEPT ![t] = "startFailed"]
          /\ pc' = [pc EXCEPT ![t] = "cleanup"]
          /\ UNCHANGED <<emitted, outFwd, errFwd>>
       \/ /\ child' = [child EXCEPT ![t] = "running"]
          /\ \E n \in 0..MaxOut : emitted' = [emitted EXCEPT ![t] = n]
          /\ outFwd' = [outFwd EXCEPT ![t] = "scan"]
          /\ errFwd' = [errFwd EXCEPT ![t] = "run"]
          /\ pc' = [pc EXCEPT ![t] = "wait"]
          /\ UNCHANGED tasks
    /\ UNCHANGED <<confVars, headerLine, runErr, runPc, cancelClosed, semaphore, interruptChan, outputFile, sink,
                   scanned, pipeClosed, tempFile, chunkFile, histVars, fsVars, sinkVars>>

\* ------------------------------------------------------- the child process
LiveRun == runPc \notin {"done", "panic"}

\* the child exits on its own, with status zero or not; by then it has or has not
\* created the file named by {output} (temp_output_<id>.txt), which nothing reads
\* before the child is gone. A file it has created holds toolOutput
ChildExit(t) ==
    /\ LiveRun
    /\ child[t] = "running"
    /\ \E how \in {"exit0", "exitErr"} : child' = [child EXCEPT ![t] = how]
    /\ \E wrote \in BOOLEAN : tempFile' = [tempFile EXCEPT ![t] = wrote]
    /\ UNCHANGED <<confVars, headerLine, runErr, runVars, pc, emitted, scanned, pipeClosed, outFwd, errFwd,
                   chunkFile, histVars, fsVars, sinkVars>>

\* faulty variant of WatcherSeesCancel: the watcher does not wait on the token
WatcherBlind == FALSE

\* the watcher's select, lines 727-735: the case <-r.cancelChan is ready once
\* the token is closed
WatcherSeesCancel == cancelClosed

\* runTaskWithCommand, lines 725-736: the watcher kills the child on cancellation
\* (a no-op on a child that has already exited)
WatcherKill(t) ==
    /\ LiveRun
    /\ pc[t] \in {"wait", "waitErr", "failCancel", "wgWait"}
    /\ WatcherSeesCancel
    /\ child[t] = "running"
    /\ child' = [child EXCEPT ![t] = "killed"]
    /\ \E wrote \in BOOLEAN : tempFile' = [tempFile EXCEPT ![t] = wrote]
    /\ UNCHANGED <<confVars, headerLine, runErr, runVars, pc, emitted, scanned, pipeClosed, outFwd, errFwd,
                   chunkFile, histVars, fsVars, sinkVars>>

\* ------------------------------------------------------------ the forwarders
\* scanner.Scan() of the stdout goroutine (lines 671-672 / 689-690): the next line,
\* or the end of the loop at end of file or when cmd.Wait has closed the pipe
FwdScan(t) ==
    /\ LiveRun
    /\ outFwd[t] = "scan"
    /\ \/ /\ scanned[t] < emitted[t]
          /\ scanned' = [scanned EXCEPT ![t] = @ + 1]
          /\ outFwd' = [outFwd EXCEPT ![t] = "select"]
       \/ /\ pipeClosed[t] \/ (scanned[t] = emitted[t] /\ child[t] # "running")
          /\ outFwd' = [outFwd EXCEPT ![t] = "done"]
          /\ UNCHANGED scanned
    /\ UNCHANGED <<confVars, headerLine, runErr, runVars, pc, child, emitted, pipeClosed, errFwd,
                   tempFile, chunkFile, histVars, fsVars, sinkVars>>

\* faulty variant of stdoutToSink: the stdout lines of every tool go to the sink
stdoutToSinkAlways == TRUE

\* ignoreStdout := !r.toolConfig.UseStdout (line 431) and the test of line 666:
\* the stdout goroutine writes to the sink only for a tool with use_stdout
stdoutToSink == useStdout

\* the select in the loop body (lines 673-678 / 691-696): return when done or the
\* token is closed, else go on to the default case
FwdSelect(t) ==
    /\ LiveRun
    /\ outFwd[t] = "select"
    /\ IF doneClosed(t) \/ CancelObserved
       THEN outFwd' = [outFwd EXCEPT ![t] = "done"]
       ELSE outFwd' = [outFwd EXCEPT ![t] = "write"]
    /\ UNCHANGED <<confVars, headerLine, runErr, runVars, pc, child, emitted, scanned, pipeClosed, errFwd,
                   tempFile, chunkFile, histVars, fsVars, sinkVars>>

\* the default case, lines 678-681 / 696-699: the call of writeToOutput with the
\* scanned line (Lock, the check of the file, WriteString, Sync, Unlock), or
\* the line printed on the console when the tool manages its own output; then
\* the next Scan
FwdWrite(t) ==
    /\ LiveRun
    /\ outFwd[t] = "write"
    /\ sink' = IF stdoutToSink THEN writeToOutput(<<"out", t, scanned[t]>>) ELSE sink
    /\ outFwd' = [outFwd EXCEPT ![t] = "scan"]
    /\ UNCHANGED <<confVars, headerLine, runErr, tasks, runPc, cancelClosed, semaphore, interruptChan, outputFile,
                   pc, child, emitted, scanned, pipeClosed, errFwd, tempFile, chunkFile,
                   histVars, fsVars, sinkVars>>

\* the stderr goroutine (lines 706-723) ends at end of file or on a closed pipe;
\* its lines go to the console only. Only wg.Wait() observes its end, so its
\* last step is taken up once the task is there
ErrFwdEnd(t) ==
    /\ LiveRun
    /\ errFwd[t] = "run"
    /\ pc[t] = "wgWait"
    /\ child[t] # "running" \/ pipeClosed[t]
    /\ errFwd' = [errFwd EXCEPT ![t] = "done"]
    /\ UNCHANGED <<confVars, headerLine, runErr, runVars, pc, child, emitted, scanned, pipeClosed, outFwd,
                   tempFile, chunkFile, histVars, fsVars, sinkVars>>

\* ------------------------------------------- runTaskWithCommand after Start
\* cmd.Wait() (line 739) returns once the child is gone, reaps it and closes both
\* pipes; its error is nil iff the child exited with status zero
Wait(t) ==
    /\ pc[t] = "wait"
    /\ child[t] \in {"exit0", "exitErr", "killed"}
    /\ child' = [child EXCEPT ![t] = "reaped"]
    /\ pipeClosed' = [pipeClosed EXCEPT ![t] = TRUE]
    /\ pc' = [pc EXCEPT ![t] = IF child[t] = "exit0" THEN "wgWait" ELSE "waitErr"]
    /\ UNCHANGED <<confVars, headerLine, runErr, runVars, emitted, scanned, outFwd, errFwd,
                   tempFile, chunkFile, histVars, fsVars, sinkVars>>

\* lines 740-748: the task is Failed; whether the token was closed decides
\* whether cancelTasks is called next
WaitErr(t) ==
    /\ pc[t] = "waitErr"
    /\ tasks' = updateTaskStatus(t, TaskFailed)
    /\ pc' = [pc EXCEPT ![t] = IF CancelObserved THEN "cleanup" ELSE "failCancel"]
    /\ UNCHANGED <<confVars, headerLine, runErr, runPc, cancelClosed, semaphore, interruptChan, outputFile, sink,
                   child, emitted, scanned, pipeClosed, outFwd, errFwd, tempFile, chunkFile,
                   histVars, fsVars, sinkVars>>

\* line 749: r.cancelTasks() after an execution failure
FailCancel(t) ==
    /\ pc[t] = "failCancel"
    /\ cancelTasks([pc EXCEPT ![t] = "cleanup"], "failure")
    /\ UNCHANGED <<confVars, headerLine, runErr, tasks, runPc, semaphore, interruptChan, outputFile, sink,
                   child, emitted, scanned, pipeClosed, outFwd, errFwd, tempFile, chunkFile,
                   fsVars, sinkVars>>

\* lines 752-755: wg.Wait() for the stderr goroutine, and for the stdout goroutine
\* when the tool's stdout is forwarded; then Completed
WgWait(t) ==
    /\ pc[t] = "wgWait"
    /\ errFwd[t] = "done"
    /\ useStdout => outFwd[t] = "done"
    /\ tasks' = updateTaskStatus(t, TaskCompleted)
    /\ pc' = [pc EXCEPT ![t] = "cleanup"]
    /\ UNCHANGED <<confVars, headerLine, runErr, runPc, cancelClosed, semaphore, interruptChan, outputFile, sink,
                   child, emitted, scanned, pipeClosed, outFwd, errFwd, tempFile, chunkFile,
                   histVars, fsVars, sinkVars>>

\* cleanupFunc, lines 351-359: what is handed to writeToOutput for the content
\* of the temp output file and the tool's declared header
cleanupContent(content, hdr) ==
    LET lines == Split(content, "\n")
        contentToWrite ==
            IF Len(lines) > 0 /\ hdr # <<>> /\ TrimSpace(lines[1]) = hdr
            THEN Join(Tail(lines), "\n")
            ELSE content
    IN Trim(contentToWrite, {NUL})

\* an append of temp-file content d by task t, as it is kept in sink
\* (the empty content stays empty)
TmpEntry(t, d) == IF d = <<>> THEN <<>> ELSE <<"tmp", t, d>>

\* faulty variant of Remove: the file is left on disk
RemoveSkipped(f, t) == f

\* os.Remove of task t's file in f (tempFile or chunkFile): the file is gone,
\* and removing a file that is not there changes nothing
Remove(f, t) == [f EXCEPT ![t] = FALSE]

\* the deferred cleanupFunc of runTask (lines 344-371): splice the temp output
\* file into the sink when the tool manages its own output, remove both files
\* (a task that returns before line 385 has named, and so created, neither)
cleanupFunc(t) ==
    /\ sink' = IF tempFile[t] /\ ~useStdout
               THEN writeToOutput(TmpEntry(t, cleanupContent(toolOutput, header)))
               ELSE sink
    /\ tempFile' = Remove(tempFile, t)
    /\ chunkFile' = Remove(chunkFile, t)

\* runTask returns (line 372): the deferred cleanupFunc runs
Cleanup(t) ==
    /\ pc[t] = "cleanup"
    /\ cleanupFunc(t)
    /\ pc' = [pc EXCEPT ![t] = "release"]
    /\ UNCHANGED <<confVars, headerLine, runErr, tasks, runPc, cancelClosed, semaphore, interruptChan, outputFile,
                   child, emitted, scanned, pipeClosed, outFwd, errFwd, histVars, fsVars,
                   sinkVars>>

\* cleanupFunc is run once more for a task it has already run for
CleanupAgain(t) ==
    /\ pc[t] = "release"
    /\ cleanupFunc(t)
    /\ UNCHANGED <<confVars, headerLine, runErr, tasks, runPc, cancelClosed, semaphore, interruptChan, outputFile,
                   pc, child, emitted, scanned, pipeClosed, outFwd, errFwd, histVars, fsVars,
                   sinkVars>>

\* the error os.Remove returns for task t's file in f
osRemoveErr(f, t) == IF f[t] THEN "nil" ELSE "ENOENT"

\* faulty variant of IsNotExist: no error is taken for "file does not exist"
IsNotExistNever(err) == FALSE

\* os.IsNotExist
IsNotExist(err) == err = "ENOENT"

\* HttpxStrategy.Cleanup and ArjunStrategy.Cleanup on task t's chunk file in f:
\* the files afterwards and the error returned
StrategyCleanup(f, t) ==
    LET err == osRemoveErr(f, t)
    IN [files |-> Remove(f, t),
        err   |-> IF err # "nil" /\ ~IsNotExist(err) THEN "failed to remove chunk file"
                  ELSE "nil"]

\* the ways a call of PrepareInput for the line range r can end: os.Create
\* fails, a WriteString of the loop fails (when the range holds a line), or
\* the chunk file is written
PrepareOutcomes(r) ==
    {"create", "nil"} \cup
        (IF r.startLine <= r.endLine /\ r.startLine < totalLines THEN {"write"} ELSE {})

\* HttpxStrategy.PrepareInput and ArjunStrategy.PrepareInput for task t on the
\* chunk files f: os.Create makes (or truncates) chunk_<taskIndex>.txt and the
\* lines are written to it; the files afterwards and the error returned
PrepareInput(f, t, outcome) ==
    [files |-> IF outcome = "create" THEN f ELSE [f EXCEPT ![t] = TRUE],
     path  |-> IF outcome = "nil" THEN ChunkPath(t - 1) ELSE <<>>,
     err   |-> outcome]

\* runTask of part_005 for a tool with a FileOutputStrategy whose
\* HandlesFileOutput accepts the user arguments (lines 359-376), the task being
\* Running: the line range is parsed and PrepareInput stages the chunk file,
\* a failure of either making the task Failed and runTask return; then the
\* command is built from the chunk path, the user arguments and the task's ID,
\* and runTaskWithCommand is entered
RunTaskFileOutput(t) ==
    /\ pc[t] = "stage"
    /\ HandlesFileOutput(built.args)
    /\ LET r == parseLineRange(tasks[t].InputData)
       IN IF ~r.ok
          THEN /\ tasks' = updateTaskStatus(t, TaskFailed)
               /\ pc' = [pc EXCEPT ![t] = "cleanup"]
               /\ UNCHANGED <<chunkFile, built>>
          ELSE \E outcome \in PrepareOutcomes(r) :
                  LET p == PrepareInput(chunkFile, t, outcome)
                      b == BuildCommandWithFileOutput(p.path, built.args, tasks[t].ID)
                  IN /\ chunkFile' = p.files
                     /\ IF p.err = "nil"
                        THEN /\ built' = [args |-> built.args, taskIndex |-> tasks[t].ID,
                                          cmdParts |-> b.cmdParts,
                                          tempOutputFile |-> b.tempOutputFile]
                             /\ pc' = [pc EXCEPT ![t] = "check3"]
                             /\ UNCHANGED tasks
                        ELSE /\ tasks' = updateTaskStatus(t, TaskFailed)
                             /\ pc' = [pc EXCEPT ![t] = "cleanup"]
                             /\ UNCHANGED built
    /\ UNCHANGED <<totalLines, workers, mode, useStdout, header, toolOutput, rawInput,
                   headerLine, runErr, runPc, cancelClosed, semaphore, interruptChan, outputFile,
                   sink, child, emitted, scanned, pipeClosed, outFwd, errFwd, tempFile,
                   histVars, fsVars, sinkVars>>

\* the chunk-file part of cleanupFunc in part_005 (lines 345-354), the one
\* caller of a strategy's Cleanup, for a task that is at or past its cleanup:
\* the line range is parsed, PrepareInput stages the chunk file again, and
\* only when both succeed Cleanup removes it, its error dropped
StrategyCleanupCall(t) ==
    /\ pc[t] \in {"cleanup", "release"}
    /\ LET r == parseLineRange(tasks[t].InputData)
       IN IF ~r.ok THEN UNCHANGED chunkFile
          ELSE \E outcome \in PrepareOutcomes(r) :
                  LET p == PrepareInput(chunkFile, t, outcome)
                  IN chunkFile' = IF p.err = "nil"
                                  THEN StrategyCleanup(p.files, t).files
                                  ELSE p.files
    /\ UNCHANGED <<confVars, headerLine, runErr, runVars, pc, child, emitted, scanned, pipeClosed,
                   outFwd, errFwd, tempFile, histVars, fsVars, sinkVars>>

\* runTasks, line 314 and 307: the deferred "<-semaphore", then wg.Done()
Release(t) ==
    /\ pc[t] = "release"
    /\ ReleaseSlot(t)
    /\ UNCHANGED <<confVars, headerLine, runErr, tasks, runPc, cancelClosed, interruptChan, outputFile, sink,
                   child, emitted, scanned, pipeClosed, outFwd, errFwd, tempFile, chunkFile,
                   histVars, fsVars, sinkVars>>

\* ------------------------------------------------------------ Run, part 2
\* signal.Notify is in effect from Setup (Run, line 147) to the deferred Stop
\* (line 148) at the return of Run: not while main's runCommand checks the
\* flags and NewRunner builds the Runner, not before Run is entered, and not
\* after a set-up error has made it return
NotifyInEffect ==
    /\ LiveRun
    /\ runPc # "runCommand"
    /\ ~(runPc = "setup" /\ bpc \in {"new", "idle", "exit"})

\* an interrupt or termination signal: signal.Notify puts it into the
\* one-element interruptChan, or drops it when the channel is full
Interrupt ==
    /\ NotifyInEffect
    /\ interruptChan = 0
    /\ interruptChan' = 1
    /\ UNCHANGED <<confVars, headerLine, runErr, tasks, runPc, cancelClosed, semaphore, outputFile, sink,
                   taskVars, histVars, fsVars, sinkVars>>

\* faulty variant of wgWaitReturns: runTasks does not wait for the goroutines
wgWaitSkipped == TRUE

\* runTasks, line 320: wg.Wait() returns when every task goroutine has called
\* its deferred wg.Done()
wgWaitReturns == \A t \in Tasks : pc[t] = "returned"

\* runTasks, lines 320-321: wg.Wait() returns when every task goroutine has
\* returned; Run calls monitor, which creates its one-second ticker (line 451)
RunTasksReturn ==
    /\ runPc = "runTasks"
    /\ wgWaitReturns
    /\ runPc' = "monitor"
    /\ tickerStart' = now
    /\ UNCHANGED <<confVars, headerLine, runErr, tasks, cancelClosed, semaphore, interruptChan, outputFile, sink,
                   taskVars, histVars, files, now, runNo, bpc, backupTs, runStartFiles,
                   abortedBy, backedUp, sinkVars>>

\* faulty variant of monitorReturn: the cancellation case reports an error
monitorReturnCancelled(case) == IF case = "cancel" THEN "cancelled" ELSE "nil"

\* what monitor returns from each case of its select: nil from the ticker case
\* (line 458) and from the cancellation case (line 468), and the result of
\* handleInterrupt, nil (line 547), from the interrupt case
monitorReturn(case) == "nil"

\* monitor, lines 456-459: a tick of the one-second ticker. The first tick
\* comes a second after the select is entered, so a case that is ready by then
\* (a pending signal, the closed token) has been taken instead
MonitorTick ==
    /\ runPc = "monitor"
    /\ interruptChan = 0
    /\ ~cancelClosed
    /\ runPc' = IF checkAllCompleted THEN "summary" ELSE "monitor"
    /\ runErr' = IF checkAllCompleted THEN monitorReturn("tick") ELSE runErr
    /\ UNCHANGED <<confVars, headerLine, tasks, cancelClosed, semaphore, interruptChan, outputFile, sink,
                   taskVars, histVars, fsVars, sinkVars>>

\* the tick where the wall clock is followed: the ticker fires a second after
\* monitor has created it, so the clock shows a later second by then
MonitorTickAfterSecond == now > tickerStart /\ MonitorTick

\* monitor, lines 460-463: the interrupt case
MonitorInterrupt ==
    /\ runPc = "monitor"
    /\ interruptChan = 1
    /\ interruptChan' = 0
    /\ cancelTasks(pc, "interrupt")
    /\ runPc' = "handleInterrupt"
    /\ UNCHANGED <<confVars, headerLine, runErr, tasks, semaphore, outputFile, sink,
                   child, emitted, scanned, pipeClosed, outFwd, errFwd, tempFile, chunkFile,
                   fsVars, sinkVars>>

\* monitor, lines 464-468: the cancellation case (sleep two seconds, return nil)
MonitorCancel ==
    /\ runPc = "monitor"
    /\ cancelClosed
    /\ runPc' = "summary"
    /\ runErr' = monitorReturn("cancel")
    /\ UNCHANGED <<confVars, headerLine, tasks, cancelClosed, semaphore, interruptChan, outputFile, sink,
                   taskVars, histVars, fsVars, sinkVars>>

\* faulty variant of clearedHandle: the closed handle stays in r.outputFile
closedHandleKept == "closed"

\* handleInterrupt, line 542: r.outputFile = nil after the Close
clearedHandle == "nil"

\* Runner.handleInterrupt: cancelTasks, wait until no task is Running or the
\* five-second timeout, then sync, close and forget the output file
HandleInterrupt ==
    /\ runPc = "handleInterrupt"
    /\ cancelTasks(pc, "interrupt")
    /\ \/ checkAllTasksStopped   \* a half-second tick finds no task Running
       \/ TRUE                   \* the timeout
    /\ outputFile' = clearedHandle
    /\ sink' = IF outputFile = "open" THEN SyncClose(sink) ELSE sink
    /\ runPc' = "summary"
    /\ runErr' = monitorReturn("interrupt")
    /\ UNCHANGED <<confVars, headerLine, tasks, semaphore, interruptChan,
                   child, emitted, scanned, pipeClosed, outFwd, errFwd, tempFile, chunkFile,
                   fsVars, sinkVars>>

\* Run, lines 200-216 and the deferred close of lines 173-178: an error of
\* monitor is returned at once, otherwise the summary is shown and nil is
\* returned; then the output file is closed unless handleInterrupt has set it
\* to nil
ReturnFromRun ==
    /\ runPc = "summary"
    /\ outputFile' = IF outputFile = "nil" THEN "nil" ELSE "closed"
    /\ sink' = IF outputFile = "open" THEN SyncClose(sink) ELSE sink
    /\ runPc' = "done"
    /\ UNCHANGED <<confVars, headerLine, runErr, tasks, cancelClosed, semaphore, interruptChan,
                   taskVars, histVars, fsVars, sinkVars>>

\* ------------------------------------------------- the output file's backup
OutputPath == <<"out", ".txt">>

\* fmt.Sprintf("%s_%s%s", base, timestamp, ext), the timestamp to the second
BackupPath(ts) == <<"out", ts, ".txt">>

NoFile == <<>>

Paths == {OutputPath} \cup {BackupPath(ts) : ts \in 0..MaxClock}

\* faulty variant of writeHeader: no header line is written
writeHeaderSkipped(hdr) == <<>>

\* Run, lines 169-172: the header and a newline, when the tool declares one
writeHeader(hdr) == IF hdr # <<>> THEN hdr \o <<"\n">> ELSE <<>>

\* faulty variant of Rename: the backup name is computed but the file is left where it is
RenameSkipped(f, oldpath, newpath) == f

\* os.Rename: the file moves to newpath, replacing what was there
Rename(f, oldpath, newpath) == [f EXCEPT ![newpath] = f[oldpath], ![oldpath] = NoFile]

\* os.Create: a new file, or the existing one truncated; either way the content
\* at the path is from now on this run's
Create(f, path, run) == [f EXCEPT ![path] = <<"run", run>>]

\* the program is started, for the first time or again after an earlier run
\* has ended, and Run is called (line 141) on the Runner that NewRunner has
\* just built (lines 78-85: no task, a cancelChan that is not closed, an empty
\* interruptChan, no output file)
StartRun ==
    /\ bpc = "idle" \/ (bpc = "pool" /\ runPc = "done")
    /\ runNo < MaxRuns
    /\ runNo' = runNo + 1
    /\ runStartFiles' = files
    /\ abortedBy' = "none"
    /\ bpc' = "backup"
    /\ runPc' = "setup"
    /\ tasks' = <<>> /\ semaphore' = 0 /\ sink' = <<>>
    /\ pc' = <<>> /\ child' = <<>> /\ emitted' = <<>> /\ scanned' = <<>>
    /\ pipeClosed' = <<>> /\ outFwd' = <<>> /\ errFwd' = <<>>
    /\ tempFile' = <<>> /\ chunkFile' = <<>>
    /\ cancelClosed' = FALSE /\ cancelCause' = "none" /\ cancelSnap' = <<>> /\ closeCount' = 0
    /\ interruptChan' = 0
    /\ outputFile' = "nil"
    /\ headerLine' = <<>>
    /\ runErr' = "none"
    /\ UNCHANGED <<confVars, files, now, tickerStart, backupTs, backedUp, sinkVars>>

\* Runner.backupOutputFile, and Run's return of its error (lines 150-153)
Backup ==
    /\ bpc = "backup"
    /\ \/ /\ files[OutputPath] = NoFile
          /\ bpc' = "mkdir"
          /\ UNCHANGED <<files, backupTs, backedUp, abortedBy>>
       \/ /\ abortedBy' = "stat"
          /\ bpc' = "idle"
          /\ UNCHANGED <<files, backupTs, backedUp>>
       \/ /\ files[OutputPath] # NoFile
          /\ \/ /\ files' = Rename(files, OutputPath, BackupPath(now))
                /\ backupTs' = now
                /\ backedUp' = backedUp \cup {files[OutputPath]}
                /\ bpc' = "mkdir"
                /\ UNCHANGED abortedBy
             \/ /\ abortedBy' = "rename"
                /\ bpc' = "idle"
                /\ UNCHANGED <<files, backupTs, backedUp>>
    /\ UNCHANGED <<confVars, headerLine, runErr, runVars, taskVars, histVars, now, runNo, tickerStart, runStartFiles,
                   sinkVars>>

\* Run, lines 155-161: os.MkdirAll of the output directory
Mkdir ==
    /\ bpc = "mkdir"
    /\ \/ /\ bpc' = "create"
          /\ UNCHANGED abortedBy
       \/ /\ abortedBy' = "mkdir"
          /\ bpc' = "idle"
    /\ UNCHANGED <<confVars, headerLine, runErr, runVars, taskVars, histVars, files, now, runNo, tickerStart,
                   backupTs, runStartFiles, backedUp, sinkVars>>

\* Run, lines 163-172: os.Create of the output file and the header line
CreateOutput ==
    /\ bpc = "create"
    /\ \/ /\ files' = Create(files, OutputPath, runNo)
          /\ outputFile' = "open"
          /\ headerLine' = writeHeader(header)
          /\ bpc' = "body"
          /\ UNCHANGED abortedBy
       \/ /\ abortedBy' = "create"
          /\ bpc' = "idle"
          /\ UNCHANGED <<files, outputFile, headerLine>>
    /\ UNCHANGED <<confVars, runErr, tasks, runPc, cancelClosed, semaphore, interruptChan, sink,
                   taskVars, histVars, now, runNo, tickerStart,
                   backupTs, runStartFiles, backedUp, sinkVars>>

\* main.go, lines 154-165, and NewRunner (runner.go, lines 64-86): the runner is
\* built unless the config file cannot be loaded or does not have the tool;
\* main then calls Run, or logs the error and exits
NewRunner ==
    /\ bpc = "new"
    /\ runPc = "setup"
    /\ \/ /\ bpc' = "idle"
          /\ UNCHANGED abortedBy
       \/ /\ abortedBy' = "tool"
          /\ bpc' = "exit"
    /\ UNCHANGED <<confVars, headerLine, runErr, runVars, taskVars, histVars, files, now, runNo, tickerStart,
                   backupTs, runStartFiles, backedUp, sinkVars>>

\* faulty variant of ReadInput: the error is logged and Run carries on
ReadInputIgnored ==
    /\ bpc = "body"
    /\ runPc = "setup"
    /\ \/ UNCHANGED abortedBy
       \/ abortedBy' = "read"
    /\ totalLines' = Len(readInputFile(rawInput))
    /\ bpc' = "pool"
    /\ runPc' = "createTasks"
    /\ UNCHANGED <<workers, mode, useStdout, header, toolOutput, rawInput, built, headerLine, runErr, tasks, cancelClosed, semaphore, interruptChan, outputFile,
                   sink, taskVars, histVars, files, now, runNo, tickerStart,
                   backupTs, runStartFiles, backedUp, sinkVars>>

\* Run, lines 180-184: readInputFile; its error makes Run return, the deferred
\* function of lines 173-178 closing the output file, and otherwise Run goes on
\* to createTasks and the worker pool
ReadInput ==
    /\ bpc = "body"
    /\ runPc = "setup"
    /\ \/ /\ totalLines' = Len(readInputFile(rawInput))
          /\ bpc' = "pool"
          /\ runPc' = "createTasks"
          /\ UNCHANGED <<abortedBy, outputFile>>
       \/ /\ abortedBy' = "read"
          /\ bpc' = "idle"
          /\ outputFile' = "closed"
          /\ UNCHANGED <<runPc, totalLines>>
    /\ UNCHANGED <<workers, mode, useStdout, header, toolOutput, rawInput, built, headerLine, runErr, tasks, cancelClosed, semaphore, interruptChan,
                   sink, taskVars, histVars, files, now, runNo, tickerStart,
                   backupTs, runStartFiles, backedUp, sinkVars>>

\* the wall clock reaches the next second
Tick ==
    /\ now < MaxClock
    /\ now' = now + 1
    /\ UNCHANGED <<confVars, headerLine, runErr, runVars, taskVars, histVars, files, runNo, bpc, tickerStart,
                   backupTs, runStartFiles, abortedBy, backedUp, sinkVars>>

\* ------------------------------------------- writeToOutput, step by step
\* In the actions above a call of writeToOutput is one step. Here it is the
\* steps of lines 436-447, for the calls made by the goroutines of task t: the
\* stdout forwarder (line 681) or the deferred cleanupFunc (line 360)
NoHolder == <<"none", 0>>

\* line + "\n" of line 681, for a line of one character
StdoutLine == <<"l", "\n">>

\* no call of writeToOutput is in progress and none has been made
SinkIdle ==
    /\ outputMutex = NoHolder
    /\ wpc = <<>> /\ wcontent = <<>> /\ wwritten = <<>> /\ wcalls = <<>>
    /\ fileBytes = <<>>

\* faulty variant of MutexFree: Lock never waits
MutexFreeAlways == TRUE

\* r.outputMutex.Lock() returns only when no goroutine holds the mutex
MutexFree == outputMutex = NoHolder

\* the default case of the forwarder's select (lines 678-681) calls
\* writeToOutput with the scanned line
FwdCall(t) ==
    /\ LiveRun
    /\ useStdout
    /\ outFwd[t] = "select"
    /\ ~(doneClosed(t) \/ CancelObserved)
    /\ outFwd' = [outFwd EXCEPT ![t] = "write"]
    /\ wpc' = [wpc EXCEPT ![t] = "lock"]
    /\ wcontent' = [wcontent EXCEPT ![t] = StdoutLine]
    /\ wwritten' = [wwritten EXCEPT ![t] = 0]
    /\ UNCHANGED <<confVars, headerLine, runErr, runVars, pc, child, emitted, scanned, pipeClosed, errFwd,
                   tempFile, chunkFile, histVars, fsVars, outputMutex, wcalls, fileBytes>>

\* the done and cancelChan cases of the forwarder's select (lines 674-677): the
\* goroutine returns without a call of writeToOutput
FwdReturn(t) ==
    /\ LiveRun
    /\ outFwd[t] = "select"
    /\ doneClosed(t) \/ CancelObserved
    /\ outFwd' = [outFwd EXCEPT ![t] = "done"]
    /\ UNCHANGED <<confVars, headerLine, runErr, runVars, pc, child, emitted, scanned, pipeClosed, errFwd,
                   tempFile, chunkFile, histVars, fsVars, sinkVars>>

\* cleanupFunc, lines 345-360: the temp output file is read and what is left
\* of its content is passed to writeToOutput
CleanupCall(t) ==
    /\ pc[t] = "cleanup"
    /\ wpc[t] = "idle"
    /\ tempFile[t] /\ ~useStdout
    /\ wpc' = [wpc EXCEPT ![t] = "lock"]
    /\ wcontent' = [wcontent EXCEPT ![t] = cleanupContent(toolOutput, header)]
    /\ wwritten' = [wwritten EXCEPT ![t] = 0]
    /\ UNCHANGED <<confVars, headerLine, runErr, runVars, taskVars, histVars, fsVars,
                   outputMutex, wcalls, fileBytes>>

\* line 436: r.outputMutex.Lock()
WLock(t) ==
    /\ wpc[t] = "lock"
    /\ MutexFree
    /\ outputMutex' = <<"task", t>>
    /\ wpc' = [wpc EXCEPT ![t] = "check"]
    /\ UNCHANGED <<confVars, headerLine, runErr, runVars, taskVars, histVars, fsVars,
                   wcontent, wwritten, wcalls, fileBytes>>

\* line 439: nothing is written without a file or for the empty content
WCheck(t) ==
    /\ wpc[t] = "check"
    /\ wpc' = [wpc EXCEPT ![t] = IF outputFile # "nil" /\ wcontent[t] # <<>>
                                  THEN "write" ELSE "unlock"]
    /\ UNCHANGED <<confVars, headerLine, runErr, runVars, taskVars, histVars, fsVars,
                   outputMutex, wcontent, wwritten, wcalls, fileBytes>>

\* lines 441-445: WriteString puts the content into the file, here one byte
\* per step, each marked with the call it comes from; a closed file takes
\* nothing. Sync follows the last byte
WWrite(t) ==
    /\ wpc[t] = "write"
    /\ IF outputFile = "open"
       THEN /\ fileBytes' = Append(fileBytes, [by |-> t, call |-> wcalls[t] + 1,
                                               at |-> wwritten[t] + 1,
                                               ch |-> wcontent[t][wwritten[t] + 1]])
            /\ wwritten' = [wwritten EXCEPT ![t] = @ + 1]
            /\ wpc' = [wpc EXCEPT ![t] = IF wwritten[t] + 1 = Len(wcontent[t])
                                          THEN "unlock" ELSE "write"]
       ELSE /\ wpc' = [wpc EXCEPT ![t] = "unlock"]
            /\ UNCHANGED <<fileBytes, wwritten>>
    /\ UNCHANGED <<confVars, headerLine, runErr, runVars, taskVars, histVars, fsVars,
                   outputMutex, wcontent, wcalls>>

\* line 437: the deferred Unlock; the caller goes on: the forwarder to its next
\* Scan, cleanupFunc to the removal of the task's files (lines 366-370)
WUnlock(t) ==
    /\ wpc[t] = "unlock"
    /\ outputMutex' = NoHolder
    /\ wpc' = [wpc EXCEPT ![t] = "idle"]
    /\ wcalls' = [wcalls EXCEPT ![t] = @ + 1]
    /\ IF useStdout
       THEN /\ outFwd' = [outFwd EXCEPT ![t] = "scan"]
            /\ UNCHANGED <<pc, tempFile, chunkFile>>
       ELSE /\ tempFile' = Remove(tempFile, t)
            /\ chunkFile' = Remove(chunkFile, t)
            /\ pc' = [pc EXCEPT ![t] = "release"]
            /\ UNCHANGED outFwd
    /\ UNCHANGED <<confVars, headerLine, runErr, runVars, child, emitted, scanned, pipeClosed, errFwd,
                   histVars, fsVars, wcontent, wwritten, fileBytes>>

\* ---------------------------------------------------------- specifications
\* a tool's declared header, and a temp output file of that header and one line
DeclaredHeader == <<"h">>

HeaderAndLine == <<"h", "\n", "x", "\n">>

TaskInit ==
    /\ tasks = <<>>
    /\ runPc = "createTasks"
    /\ cancelClosed = FALSE
    /\ semaphore = 0
    /\ interruptChan = 0
    /\ outputFile = "open"
    /\ sink = <<>>
    /\ pc = <<>> /\ child = <<>> /\ emitted = <<>> /\ scanned = <<>>
    /\ pipeClosed = <<>> /\ outFwd = <<>> /\ errFwd = <<>>
    /\ tempFile = <<>> /\ chunkFile = <<>>
    /\ cancelCause = "none"
    /\ cancelSnap = <<>>
    /\ closeCount = 0
    /\ runErr = "none"
    /\ built = NoBuild
    /\ headerLine = writeHeader(header)
    /\ SinkIdle

\* no run has started; the output path may hold a file of an earlier time
FsInit ==
    /\ now = 0 /\ runNo = 0 /\ bpc = "idle" /\ tickerStart = 0 /\ backupTs = 0
    /\ runStartFiles = [p \in Paths |-> NoFile]
    /\ abortedBy = "none"
    /\ backedUp = {}

Init ==
    /\ totalLines \in 0..MaxLines
    /\ workers \in 1..MaxWorkers
    /\ mode \in {"single", "multiple"}
    /\ useStdout \in BOOLEAN
    /\ header = DeclaredHeader
    /\ toolOutput = HeaderAndLine
    /\ rawInput = inputLines(totalLines)
    /\ TaskInit
    /\ FsInit
    /\ files = [p \in Paths |-> NoFile]

\* the steps of task t's goroutine and of the goroutines it starts
TaskStep(t) ==
    \/ Select(t) \/ SelectCancelled(t) \/ CheckBeforeStart(t) \/ SetRunning(t)
    \/ CheckDuringSetup(t) \/ Stage(t) \/ CheckBeforeCommand(t) \/ Start(t)
    \/ Wait(t) \/ WaitErr(t) \/ FailCancel(t) \/ WgWait(t) \/ Cleanup(t) \/ Release(t)
    \/ WatcherKill(t) \/ FwdScan(t) \/ FwdSelect(t) \/ FwdWrite(t) \/ ErrFwdEnd(t)

\* the steps of Run's own goroutine
RunStep ==
    \/ CreateTasks \/ RunTasksReturn \/ MonitorTick \/ MonitorInterrupt \/ MonitorCancel
    \/ HandleInterrupt \/ ReturnFromRun

Next ==
    \/ CreateTasks
    \/ \E t \in Tasks : Select(t)
    \/ \E t \in Tasks : SelectCancelled(t)
    \/ \E t \in Tasks : CheckBeforeStart(t)
    \/ \E t \in Tasks : SetRunning(t)
    \/ \E t \in Tasks : CheckDuringSetup(t)
    \/ \E t \in Tasks : Stage(t)
    \/ \E t \in Tasks : CheckBeforeCommand(t)
    \/ \E t \in Tasks : Start(t)
    \/ \E t \in Tasks : ChildExit(t)
    \/ \E t \in Tasks : WatcherKill(t)
    \/ \E t \in Tasks : FwdScan(t)
    \/ \E t \in Tasks : FwdSelect(t)
    \/ \E t \in Tasks : FwdWrite(t)
    \/ \E t \in Tasks : ErrFwdEnd(t)
    \/ \E t \in Tasks : Wait(t)
    \/ \E t \in Tasks : WaitErr(t)
    \/ \E t \in Tasks : FailCancel(t)
    \/ \E t \in Tasks : WgWait(t)
    \/ \E t \in Tasks : Cleanup(t)
    \/ \E t \in Tasks : Release(t)
    \/ Interrupt
    \/ RunTasksReturn
    \/ MonitorTick
    \/ MonitorInterrupt
    \/ MonitorCancel
    \/ HandleInterrupt
    \/ ReturnFromRun

Spec == Init /\ [][Next]_vars

\* the Go scheduler runs every runnable goroutine; nothing makes a child
\* process emit or exit, and nothing makes a signal arrive
FairSpec ==
    /\ Spec
    /\ WF_vars(RunStep)
    /\ \A t \in 1..MaxLines : WF_vars(t \in Tasks /\ TaskStep(t))

PartInit ==
    /\ totalLines \in 0..MaxPartLines
    /\ workers \in 1..MaxPartWorkers
    /\ mode \in {"single", "multiple"}
    /\ useStdout = TRUE
    /\ header = DeclaredHeader
    /\ toolOutput = HeaderAndLine
    /\ rawInput = inputLines(totalLines)
    /\ TaskInit
    /\ FsInit
    /\ files = [p \in Paths |-> NoFile]

PartSpec == PartInit /\ [][CreateTasks]_vars

BackupInit ==
    /\ totalLines = 0 /\ workers = 1 /\ mode = "single" /\ useStdout = TRUE
    /\ header = DeclaredHeader
    /\ toolOutput = HeaderAndLine
    /\ rawInput = inputLines(totalLines)
    /\ tasks = <<>>
    /\ runPc = "setup"
    /\ cancelClosed = FALSE
    /\ semaphore = 0
    /\ interruptChan = 0
    /\ outputFile = "nil"
    /\ sink = <<>>
    /\ pc = <<>> /\ child = <<>> /\ emitted = <<>> /\ scanned = <<>>
    /\ pipeClosed = <<>> /\ outFwd = <<>> /\ errFwd = <<>>
    /\ tempFile = <<>> /\ chunkFile = <<>>
    /\ cancelCause = "none"
    /\ cancelSnap = <<>>
    /\ closeCount = 0
    /\ runErr = "none"
    /\ built = NoBuild
    /\ headerLine = <<>>
    /\ SinkIdle
    /\ FsInit
    /\ files \in {f \in [Paths -> {NoFile, <<"orig">>}] :
                    \A p \in Paths : p # OutputPath => f[p] = NoFile}

\* runs of the program on an input without lines, one after the other, with
\* the wall clock: the set-up of Run, then Run's own steps to its return
BackupNext ==
    \/ StartRun \/ Backup \/ Mkdir \/ CreateOutput \/ ReadInput
    \/ CreateTasks \/ RunTasksReturn \/ Interrupt
    \/ MonitorTickAfterSecond \/ MonitorInterrupt \/ HandleInterrupt \/ ReturnFromRun
    \/ Tick

BackupSpec == BackupInit /\ [][BackupNext]_vars

\* the characters a temp output file is made of here, and the files of up to
\* MaxContent characters
SpliceChars == {"h", "x", " ", "U+3000", "\n", NUL}

Contents == UNION {[1..n -> SpliceChars] : n \in 0..MaxContent}

\* a tool declares no header or the header "h"
Headers == {<<>>, DeclaredHeader}

\* one task of a tool that manages its own output has come back from
\* runTaskWithCommand Completed: its child has exited with status zero and has
\* left a temp output file; the deferred cleanupFunc is about to run
SpliceInit ==
    /\ totalLines = 1 /\ workers = 1 /\ mode = "single" /\ useStdout = FALSE
    /\ header \in Headers
    /\ toolOutput \in Contents
    /\ rawInput = inputLines(totalLines)
    /\ tasks = [createTasks(1, 1, "single") EXCEPT ![1].Status = TaskCompleted,
                                                   ![1].EndTime = 1]
    /\ runPc = "runTasks"
    /\ cancelClosed = FALSE
    /\ semaphore = 1
    /\ interruptChan = 0
    /\ outputFile = "open"
    /\ sink = <<>>
    /\ pc = <<"cleanup">> /\ child = <<"reaped">> /\ emitted = <<0>> /\ scanned = <<0>>
    /\ pipeClosed = <<TRUE>> /\ outFwd = <<"done">> /\ errFwd = <<"done">>
    /\ tempFile = <<TRUE>> /\ chunkFile = <<FALSE>>
    /\ cancelCause = "none"
    /\ cancelSnap = <<>>
    /\ closeCount = 0
    /\ runErr = "none"
    /\ built = NoBuild
    /\ headerLine = writeHeader(header)
    /\ SinkIdle
    /\ FsInit
    /\ files = [p \in Paths |-> NoFile]

SpliceNext == \E t \in Tasks : Cleanup(t)

\* the program is started from the command line: -t takes any integer
CliInit ==
    /\ totalLines = 0
    /\ workers \in -1..MaxWorkers
    /\ mode \in {"single", "multiple"}
    /\ useStdout \in BOOLEAN
    /\ header = DeclaredHeader
    /\ toolOutput = HeaderAndLine
    /\ rawInput \in {inputLines(n) : n \in 0..MaxLines}
    /\ tasks = <<>>
    /\ runPc = "runCommand"
    /\ cancelClosed = FALSE
    /\ semaphore = 0
    /\ interruptChan = 0
    /\ outputFile = "nil"
    /\ sink = <<>>
    /\ pc = <<>> /\ child = <<>> /\ emitted = <<>> /\ scanned = <<>>
    /\ pipeClosed = <<>> /\ outFwd = <<>> /\ errFwd = <<>>
    /\ tempFile = <<>> /\ chunkFile = <<>>
    /\ cancelCause = "none"
    /\ cancelSnap = <<>>
    /\ closeCount = 0
    /\ runErr = "none"
    /\ built = NoBuild
    /\ headerLine = <<>>
    /\ SinkIdle
    /\ now = 0 /\ runNo = MaxRuns - 1 /\ bpc = "new" /\ tickerStart = 0 /\ backupTs = 0
    /\ runStartFiles = [p \in Paths |-> NoFile]
    /\ abortedBy = "none"
    /\ backedUp = {}
    /\ files = [p \in Paths |-> NoFile]

\* the program has been started for a tool whose lines go to the sink, on an
\* input of up to MaxLines lines, for the last of the MaxRuns runs; NewRunner
\* is about to be called, no output file is open yet, and the output path may
\* hold a file of an earlier time
SetupInit ==
    /\ totalLines = 0
    /\ workers = MaxWorkers
    /\ mode = "single"
    /\ useStdout = TRUE
    /\ header \in Headers
    /\ toolOutput = HeaderAndLine
    /\ rawInput \in RawInputs
    /\ tasks = <<>>
    /\ runPc = "setup"
    /\ cancelClosed = FALSE
    /\ semaphore = 0
    /\ interruptChan = 0
    /\ outputFile = "nil"
    /\ sink = <<>>
    /\ pc = <<>> /\ child = <<>> /\ emitted = <<>> /\ scanned = <<>>
    /\ pipeClosed = <<>> /\ outFwd = <<>> /\ errFwd = <<>>
    /\ tempFile = <<>> /\ chunkFile = <<>>
    /\ cancelCause = "none"
    /\ cancelSnap = <<>>
    /\ closeCount = 0
    /\ runErr = "none"
    /\ built = NoBuild
    /\ headerLine = <<>>
    /\ SinkIdle
    /\ now = 0 /\ runNo = MaxRuns - 1 /\ bpc = "new" /\ tickerStart = 0 /\ backupTs = 0
    /\ runStartFiles = [p \in Paths |-> NoFile]
    /\ abortedBy = "none"
    /\ backedUp = {}
    /\ files \in {f \in [Paths -> {NoFile, <<"orig">>}] :
                    \A p \in Paths : p # OutputPath => f[p] = NoFile}

\* the set-up of a run, step by step, and then the worker pool
SetupNext == NewRunner \/ StartRun \/ Backup \/ Mkdir \/ CreateOutput \/ ReadInput \/ Next

SetupSpec == SetupInit /\ [][SetupNext]_vars

\* the flags are checked, then the set-up of the run and the worker pool
CliNext == RunCommand \/ SetupNext

CliSpec == CliInit /\ [][CliNext]_vars

\* MaxWriters tasks of a tool whose stdout is forwarded are under way at once:
\* each is in cmd.Wait, its child running with MaxEmit lines written to its
\* stdout pipe, its forwarder at its first Scan
OrderInit ==
    /\ totalLines = MaxWriters /\ workers = MaxWriters /\ mode = "single"
    /\ useStdout = TRUE
    /\ header = DeclaredHeader
    /\ toolOutput = HeaderAndLine
    /\ rawInput = inputLines(totalLines)
    /\ tasks = [t \in 1..MaxWriters |->
                  [createTasks(MaxWriters, MaxWriters, "single")[t]
                      EXCEPT !.Status = TaskRunning]]
    /\ runPc = "runTasks"
    /\ cancelClosed = FALSE
    /\ semaphore = MaxWriters
    /\ interruptChan = 0
    /\ outputFile = "open"
    /\ sink = <<>>
    /\ pc = [t \in 1..MaxWriters |-> "wait"]
    /\ child = [t \in 1..MaxWriters |-> "running"]
    /\ emitted = [t \in 1..MaxWriters |-> MaxEmit]
    /\ scanned = [t \in 1..MaxWriters |-> 0]
    /\ pipeClosed = [t \in 1..MaxWriters |-> FALSE]
    /\ outFwd = [t \in 1..MaxWriters |-> "scan"]
    /\ errFwd = [t \in 1..MaxWriters |-> "run"]
    /\ tempFile = [t \in 1..MaxWriters |-> FALSE]
    /\ chunkFile = [t \in 1..MaxWriters |-> FALSE]
    /\ cancelCause = "none"
    /\ cancelSnap = <<>>
    /\ closeCount = 0
    /\ runErr = "none"
    /\ built = NoBuild
    /\ headerLine = writeHeader(header)
    /\ SinkIdle
    /\ FsInit
    /\ files = [p \in Paths |-> NoFile]

\* the steps of the tasks from cmd.Wait to the end of their goroutines
OrderNext ==
    \/ \E t \in Tasks : ChildExit(t)
    \/ \E t \in Tasks : WatcherKill(t)
    \/ \E t \in Tasks : FwdScan(t)
    \/ \E t \in Tasks : FwdSelect(t)
    \/ \E t \in Tasks : FwdWrite(t)
    \/ \E t \in Tasks : ErrFwdEnd(t)
    \/ \E t \in Tasks : Wait(t)
    \/ \E t \in Tasks : WaitErr(t)
    \/ \E t \in Tasks : FailCancel(t)
    \/ \E t \in Tasks : WgWait(t)
    \/ \E t \in Tasks : Cleanup(t)
    \/ \E t \in Tasks : Release(t)

OrderSpec == OrderInit /\ [][OrderNext]_vars

\* one task more than the largest run of the other specifications
CancelLines == MaxLines + 1

\* a run of CancelLines tasks is about to be cancelled: the first task's child
\* has exited with an error and the task, Failed, is about to call
\* cancelTasks; the second task is in cmd.Wait with a live child; the others
\* are still in the select of runTasks
CancelInit ==
    /\ totalLines = CancelLines /\ workers = MaxWorkers /\ mode = "single"
    /\ useStdout = TRUE
    /\ header = DeclaredHeader
    /\ toolOutput = HeaderAndLine
    /\ rawInput = inputLines(totalLines)
    /\ tasks = [t \in 1..CancelLines |->
                  [createTasks(CancelLines, MaxWorkers, "single")[t]
                      EXCEPT !.Status = IF t = 1 THEN TaskFailed
                                        ELSE IF t = 2 THEN TaskRunning ELSE TaskPending,
                             !.EndTime = IF t = 1 THEN 1 ELSE 0]]
    /\ runPc = "runTasks"
    /\ cancelClosed = FALSE
    /\ semaphore = 2
    /\ interruptChan = 0
    /\ outputFile = "open"
    /\ sink = <<>>
    /\ pc = [t \in 1..CancelLines |->
                IF t = 1 THEN "failCancel" ELSE IF t = 2 THEN "wait" ELSE "select"]
    /\ child = [t \in 1..CancelLines |->
                   IF t = 1 THEN "reaped" ELSE IF t = 2 THEN "running" ELSE "none"]
    /\ emitted = [t \in 1..CancelLines |-> IF t = 2 THEN MaxOut ELSE 0]
    /\ scanned = [t \in 1..CancelLines |-> 0]
    /\ pipeClosed = [t \in 1..CancelLines |-> t = 1]
    /\ outFwd = [t \in 1..CancelLines |-> IF t \in {1, 2} THEN "scan" ELSE "none"]
    /\ errFwd = [t \in 1..CancelLines |-> IF t \in {1, 2} THEN "run" ELSE "none"]
    /\ tempFile = [t \in 1..CancelLines |-> FALSE]
    /\ chunkFile = [t \in 1..CancelLines |-> FALSE]
    /\ cancelCause = "none"
    /\ cancelSnap = <<>>
    /\ closeCount = 0
    /\ runErr = "none"
    /\ built = NoBuild
    /\ headerLine = writeHeader(header)
    /\ SinkIdle
    /\ FsInit
    /\ files = [p \in Paths |-> NoFile]

\* the steps of the task goroutines, and the return of runTasks
CancelNext ==
    \/ \E t \in Tasks : Select(t)
    \/ \E t \in Tasks : SelectCancelled(t)
    \/ \E t \in Tasks : CheckBeforeStart(t)
    \/ \E t \in Tasks : SetRunning(t)
    \/ \E t \in Tasks : CheckDuringSetup(t)
    \/ \E t \in Tasks : Stage(t)
    \/ \E t \in Tasks : CheckBeforeCommand(t)
    \/ \E t \in Tasks : Start(t)
    \/ \E t \in Tasks : ChildExit(t)
    \/ \E t \in Tasks : WatcherKill(t)
    \/ \E t \in Tasks : FwdScan(t)
    \/ \E t \in Tasks : FwdSelect(t)
    \/ \E t \in Tasks : FwdWrite(t)
    \/ \E t \in Tasks : ErrFwdEnd(t)
    \/ \E t \in Tasks : Wait(t)
    \/ \E t \in Tasks : WaitErr(t)
    \/ \E t \in Tasks : FailCancel(t)
    \/ \E t \in Tasks : WgWait(t)
    \/ \E t \in Tasks : Cleanup(t)
    \/ \E t \in Tasks : Release(t)
    \/ RunTasksReturn

CancelSpec == CancelInit /\ [][CancelNext]_vars

\* the Go scheduler runs every runnable goroutine; nothing makes a child
\* process exit on its own
CancelFairSpec ==
    /\ CancelSpec
    /\ WF_vars(RunTasksReturn)
    /\ \A t \in 1..CancelLines : WF_vars(t \in Tasks /\ TaskStep(t))

\* the temp output files of the tasks that call writeToOutput step by step
SinkContents == {<<"h", "\n">>, <<"x", "\n">>, HeaderAndLine}

\* MaxWriters tasks are under way at once. With a tool whose stdout is
\* forwarded each is in cmd.Wait, its child running and its forwarder at Scan;
\* with a tool that manages its own output each has come back Completed from
\* runTaskWithCommand with a temp output file and is about to run cleanupFunc
SinkInit ==
    /\ totalLines = MaxWriters /\ workers = MaxWriters /\ mode = "single"
    /\ useStdout \in BOOLEAN
    /\ header \in Headers
    /\ toolOutput \in SinkContents
    /\ rawInput = inputLines(totalLines)
    /\ tasks = [t \in 1..MaxWriters |->
                  [createTasks(MaxWriters, MaxWriters, "single")[t]
                      EXCEPT !.Status = IF useStdout THEN TaskRunning ELSE TaskCompleted,
                             !.EndTime = IF useStdout THEN 0 ELSE 1]]
    /\ runPc = "runTasks"
    /\ cancelClosed = FALSE
    /\ semaphore = MaxWriters
    /\ interruptChan = 0
    /\ outputFile = "open"
    /\ sink = <<>>
    /\ pc = [t \in 1..MaxWriters |-> IF useStdout THEN "wait" ELSE "cleanup"]
    /\ child = [t \in 1..MaxWriters |-> IF useStdout THEN "running" ELSE "reaped"]
    /\ emitted = [t \in 1..MaxWriters |-> IF useStdout THEN MaxOut ELSE 0]
    /\ scanned = [t \in 1..MaxWriters |-> 0]
    /\ pipeClosed = [t \in 1..MaxWriters |-> ~useStdout]
    /\ outFwd = [t \in 1..MaxWriters |-> IF useStdout THEN "scan" ELSE "done"]
    /\ errFwd = [t \in 1..MaxWriters |-> IF useStdout THEN "run" ELSE "done"]
    /\ tempFile = [t \in 1..MaxWriters |-> ~useStdout]
    /\ chunkFile = [t \in 1..MaxWriters |-> FALSE]
    /\ cancelCause = "none"
    /\ cancelSnap = <<>>
    /\ closeCount = 0
    /\ runErr = "none"
    /\ built = NoBuild
    /\ headerLine = writeHeader(header)
    /\ FsInit
    /\ files = [p \in Paths |-> NoFile]
    /\ outputMutex = NoHolder
    /\ wpc = [t \in 1..MaxWriters |-> "idle"]
    /\ wcontent = [t \in 1..MaxWriters |-> <<>>]
    /\ wwritten = [t \in 1..MaxWriters |-> 0]
    /\ wcalls = [t \in 1..MaxWriters |-> 0]
    /\ fileBytes = <<>>

SinkNext ==
    \/ \E t \in Tasks : FwdScan(t)
    \/ \E t \in Tasks : FwdCall(t)
    \/ \E t \in Tasks : CleanupCall(t)
    \/ \E t \in Tasks : WLock(t)
    \/ \E t \in Tasks : WCheck(t)
    \/ \E t \in Tasks : WWrite(t)
    \/ \E t \in Tasks : WUnlock(t)

SinkSpec == SinkInit /\ [][SinkNext]_vars

SpliceSpec == SpliceInit /\ [][SpliceNext]_vars

\* every task of a run of MaxWorkers lines is about to run its deferred
\* cleanupFunc: it has come back from runTaskWithCommand Completed or Failed,
\* its chunk file staged in multiple mode and its temp output file written or
\* not by the tool, or (multiple mode) it has failed to create its chunk file
CleanKinds == {"ran", "stageFailed"}

CleanInit ==
    /\ totalLines = MaxWorkers /\ workers = MaxWorkers
    /\ mode \in {"single", "multiple"}
    /\ useStdout \in BOOLEAN
    /\ header = DeclaredHeader
    /\ toolOutput = HeaderAndLine
    /\ rawInput = inputLines(totalLines)
    /\ \E kind \in [1..MaxWorkers -> CleanKinds],
          status \in [1..MaxWorkers -> {TaskCompleted, TaskFailed}],
          wrote \in [1..MaxWorkers -> BOOLEAN] :
         /\ \A t \in 1..MaxWorkers :
               kind[t] = "stageFailed" =>
                   mode = "multiple" /\ status[t] = TaskFailed /\ ~wrote[t]
         /\ tasks = [t \in 1..MaxWorkers |->
                       [createTasks(MaxWorkers, MaxWorkers, mode)[t]
                           EXCEPT !.Status = status[t], !.EndTime = 1]]
         /\ child = [t \in 1..MaxWorkers |->
                        IF kind[t] = "ran" THEN "reaped" ELSE "none"]
         /\ outFwd = [t \in 1..MaxWorkers |->
                         IF kind[t] = "ran" THEN "done" ELSE "none"]
         /\ errFwd = [t \in 1..MaxWorkers |->
                         IF kind[t] = "ran" THEN "done" ELSE "none"]
         /\ pipeClosed = [t \in 1..MaxWorkers |-> kind[t] = "ran"]
         /\ tempFile = wrote
         /\ chunkFile = [t \in 1..MaxWorkers |->
                            kind[t] = "ran" /\ mode = "multiple"]
    /\ runPc = "runTasks"
    /\ cancelClosed = FALSE
    /\ semaphore = MaxWorkers
    /\ interruptChan = 0
    /\ outputFile = "open"
    /\ sink = <<>>
    /\ pc = [t \in 1..MaxWorkers |-> "cleanup"]
    /\ emitted = [t \in 1..MaxWorkers |-> 0]
    /\ scanned = [t \in 1..MaxWorkers |-> 0]
    /\ cancelCause = "none"
    /\ cancelSnap = <<>>
    /\ closeCount = 0
    /\ runErr = "none"
    /\ built = NoBuild
    /\ headerLine = writeHeader(header)
    /\ SinkIdle
    /\ FsInit
    /\ files = [p \in Paths |-> NoFile]

\* a run of a multiple-mode tool with a FileOutputStrategy on MaxTaskIndex + 1
\* lines and as many workers, its user arguments a list of up to MaxArgs words
\* that holds an output flag: every task has its slot, is Running and is about
\* to stage its input
ArgTasks == MaxTaskIndex + 1

ArgInit ==
    /\ totalLines = ArgTasks /\ workers = ArgTasks /\ mode = "multiple"
    /\ useStdout = FALSE
    /\ header = DeclaredHeader
    /\ toolOutput = HeaderAndLine
    /\ rawInput = inputLines(totalLines)
    /\ tasks = [t \in 1..ArgTasks |->
                  [createTasks(ArgTasks, ArgTasks, "multiple")[t]
                      EXCEPT !.Status = TaskRunning]]
    /\ runPc = "runTasks"
    /\ cancelClosed = FALSE
    /\ semaphore = ArgTasks
    /\ interruptChan = 0
    /\ outputFile = "open"
    /\ sink = <<>>
    /\ pc = [t \in 1..ArgTasks |-> "stage"]
    /\ child = [t \in 1..ArgTasks |-> "none"]
    /\ emitted = [t \in 1..ArgTasks |-> 0]
    /\ scanned = [t \in 1..ArgTasks |-> 0]
    /\ pipeClosed = [t \in 1..ArgTasks |-> FALSE]
    /\ outFwd = [t \in 1..ArgTasks |-> "none"]
    /\ errFwd = [t \in 1..ArgTasks |-> "none"]
    /\ tempFile = [t \in 1..ArgTasks |-> FALSE]
    /\ chunkFile = [t \in 1..ArgTasks |-> FALSE]
    /\ cancelCause = "none"
    /\ cancelSnap = <<>>
    /\ closeCount = 0
    /\ runErr = "none"
    /\ built \in {ArgsGiven(args) : args \in {a \in ArgLists : HandlesFileOutput(a)}}
    /\ headerLine = writeHeader(header)
    /\ SinkIdle
    /\ FsInit
    /\ files = [p \in Paths |-> NoFile]

ArgNext == \E t \in Tasks : RunTaskFileOutput(t)

ArgSpec == ArgInit /\ [][ArgNext]_vars

\* MaxWriters tasks of a tool whose stdout is forwarded are in cmd.Wait, as in
\* SinkInit, and the run goes on to its end: the children exit or are killed,
\* the forwarders call writeToOutput step by step, runTasks returns, monitor
\* returns or handles an interrupt, and Run closes the output file
LateInit == SinkInit /\ useStdout /\ header = DeclaredHeader /\ toolOutput = HeaderAndLine

LateNext ==
    \/ \E t \in Tasks : ChildExit(t)
    \/ \E t \in Tasks : WatcherKill(t)
    \/ \E t \in Tasks : FwdScan(t)
    \/ \E t \in Tasks : FwdCall(t)
    \/ \E t \in Tasks : FwdReturn(t)
    \/ \E t \in Tasks : ErrFwdEnd(t)
    \/ \E t \in Tasks : WLock(t)
    \/ \E t \in Tasks : WCheck(t)
    \/ \E t \in Tasks : WWrite(t)
    \/ \E t \in Tasks : WUnlock(t)
    \/ \E t \in Tasks : Wait(t)
    \/ \E t \in Tasks : WaitErr(t)
    \/ \E t \in Tasks : FailCancel(t)
    \/ \E t \in Tasks : WgWait(t)
    \/ \E t \in Tasks : Cleanup(t)
    \/ \E t \in Tasks : Release(t)
    \/ Interrupt
    \/ RunTasksReturn
    \/ MonitorTick
    \/ MonitorInterrupt
    \/ MonitorCancel
    \/ HandleInterrupt
    \/ ReturnFromRun

LateSpec == LateInit /\ [][LateNext]_vars

\* the cleanup of each task, run once and run again
CleanNext ==
    \/ \E t \in Tasks : Cleanup(t)
    \/ \E t \in Tasks : CleanupAgain(t)
    \/ \E t \in Tasks : StrategyCleanupCall(t)

CleanSpec == CleanInit /\ [][CleanNext]_vars

\* ------------------------------------------------------------------ claims
RunningTasks == {t \in Tasks : StatusOf(t) = TaskRunning}

\* the positions of a task goroutine between "semaphore <- struct{}{}" and "<-semaphore"
HoldsSlot(t) ==
    pc[t] \in {"check1", "setRunning", "check2", "stage", "check3", "start", "wait",
               "waitErr", "failCancel", "wgWait", "cleanup", "release"}

\* C1: in every reachable state at most workerCount tasks are Running, and a
\* Running task holds one of the semaphore's slots
C1_RunningBounded ==
    /\ Cardinality(RunningTasks) <= workers
    /\ \A t \in RunningTasks : HoldsSlot(t)
    /\ Cardinality({t \in Tasks : HoldsSlot(t)}) = semaphore
    /\ semaphore <= workers

\* C1 witness: every slot is taken by a Running task while another task waits
C1_Witness ==
    /\ Cardinality(RunningTasks) = workers
    /\ \E t \in Tasks : pc[t] = "parked"

\* C2 (as claimed): an interrupt delivered while a task is Running leads to the
\* cancellation token being triggered, whether or not the children exit on their own
C2_InterruptCancelsRunning ==
    (interruptChan = 1 /\ RunningTasks # {}) ~> cancelClosed

PendingAtCancel == {t \in DOMAIN cancelSnap : cancelSnap[t].status = TaskPending}

\* C3 (as claimed): after a failure has triggered the token, no task that was
\* Pending at that moment is still Pending when the run ends: each is Failed
C3_PendingBecomeFailed ==
    (runPc = "done" /\ cancelCause = "failure")
        => \A t \in PendingAtCancel : StatusOf(t) = TaskFailed

\* C4: no task that was Pending when a task's failure triggered the token ever
\* has a child process launched for it
C4_NoLaunchForPending ==
    cancelCause = "failure" => \A t \in PendingAtCancel : child[t] = "none"

\* C4 witness: a task that had been admitted and had passed the first check, but
\* was still Pending, when the failure triggered the token; it ended Failed
C4_Witness ==
    /\ cancelCause = "failure"
    /\ \E t \in PendingAtCancel :
         /\ cancelSnap[t].pc = "setRunning"
         /\ pc[t] = "returned"
         /\ StatusOf(t) = TaskFailed
         /\ child[t] = "none"

ParkedAtCancel == {t \in DOMAIN cancelSnap : cancelSnap[t].pc = "parked"}

\* C5: a task goroutine blocked in the admission select when the token is
\* triggered takes the cancel case: it never holds a slot afterwards
C5_ParkedNeverAdmitted ==
    \A t \in ParkedAtCancel :
        /\ pc[t] \in {"cancelCase", "returned"}
        /\ ~HoldsSlot(t)
        /\ StatusOf(t) = TaskPending

\* C5 witness: a slot is free, the token is triggered, and a task that was
\* blocked at the trigger has not taken it
C5_Witness ==
    /\ cancelClosed
    /\ semaphore < workers
    /\ \E t \in ParkedAtCancel : pc[t] = "cancelCase"

\* the number of times entry e is in the sink
Occurrences(e) == Cardinality({i \in 1..Len(sink) : sink[i] = e})

\* C6 (as claimed): when a task of a tool whose stdout is forwarded is Completed,
\* each line its child wrote is in the sink exactly once
C6_CompletedOutputForwarded ==
    useStdout =>
        \A t \in Tasks :
            StatusOf(t) = TaskCompleted
                => \A k \in 1..emitted[t] : Occurrences(<<"out", t, k>>) = 1

RunPastCreate ==
    bpc \in {"body", "pool"} \/ (bpc = "idle" /\ runNo > 0 /\ abortedBy = "read")

\* C7: a run that finds a file at the output path has renamed it to the
\* timestamped backup path before it creates the output file, so that the file's
\* content is then at the backup path and the output path holds the run's own
\* file; a run whose rename fails ends with the file system as it found it
C7_BackupBeforeCreate ==
    /\ (RunPastCreate /\ runStartFiles[OutputPath] # NoFile)
          => /\ files[BackupPath(backupTs)] = runStartFiles[OutputPath]
             /\ files[OutputPath] = <<"run", runNo>>
    /\ (bpc \in {"mkdir", "create"} /\ runStartFiles[OutputPath] # NoFile)
          => /\ files[BackupPath(backupTs)] = runStartFiles[OutputPath]
             /\ files[OutputPath] = NoFile
    /\ (bpc = "idle" /\ abortedBy \in {"stat", "rename"}) => files = runStartFiles

\* C7 witness: a second run has moved the first run's output away and created its own
C7_Witness ==
    /\ bpc = "body"
    /\ runNo = 2
    /\ runStartFiles[OutputPath] = <<"run", 1>>
    /\ files[BackupPath(backupTs)] = <<"run", 1>>
    /\ files[OutputPath] = <<"run", 2>>

\* C8 (as claimed): every content a run has moved to a backup path is still at
\* some backup path, whatever runs came after
C8_BackupsKept ==
    \A c \in backedUp : \E ts \in 0..MaxClock : files[BackupPath(ts)] = c

\* the line range a task's payload decodes to
RangeOf(k) == parseLineRange(tasks[k].InputData)

\* C9: for a non-empty input and workerCount >= 1, the tasks of multiple mode are
\* in ascending order, their ranges are contiguous and disjoint, and each input
\* line 0..totalLines-1 is in exactly one of them
C9_MultipleCoversAll ==
    (runPc = "runTasks" /\ mode = "multiple" /\ totalLines >= 1)
        => /\ Len(tasks) >= 1
           /\ \A k \in Tasks :
                /\ tasks[k].ID = k - 1
                /\ RangeOf(k).ok
                /\ RangeOf(k).startLine <= RangeOf(k).endLine
           /\ RangeOf(1).startLine = 0
           /\ RangeOf(Len(tasks)).endLine = totalLines - 1
           /\ \A k \in 1..(Len(tasks) - 1) :
                RangeOf(k + 1).startLine = RangeOf(k).endLine + 1
           /\ \A i \in 0..(totalLines - 1) :
                Cardinality({k \in Tasks :
                    RangeOf(k).startLine <= i /\ i <= RangeOf(k).endLine}) = 1

\* C9 witness: several chunks, the last one shorter than the others
C9_Witness ==
    /\ runPc = "runTasks" /\ mode = "multiple"
    /\ Len(tasks) >= 3
    /\ RangeOf(Len(tasks)).endLine - RangeOf(Len(tasks)).startLine
         < RangeOf(1).endLine - RangeOf(1).startLine

\* C10: for totalLines >= 1 and W >= 1, single mode gives one task per line,
\* task i carrying line i, and multiple mode gives at most W tasks
C10_TaskCount ==
    (runPc = "runTasks" /\ totalLines >= 1)
        => /\ mode = "single"
                => /\ Len(tasks) = totalLines
                   /\ \A k \in Tasks :
                        /\ tasks[k].ID = k - 1
                        /\ tasks[k].InputData = InputLine(k - 1)
           /\ mode = "multiple" => Len(tasks) <= workers

\* C10 witness: multiple mode uses every worker although the lines do not
\* divide evenly
C10_Witness ==
    /\ runPc = "runTasks" /\ mode = "multiple"
    /\ workers >= 3
    /\ totalLines % workers # 0
    /\ Len(tasks) = workers

\* C11: when cmd.Wait returns an error for a task's child, the task becomes
\* Failed; if the token is not yet triggered the task goes on to trigger it,
\* and if it is already triggered the channel is not closed again
C11_ErrorExitFailsAndTriggers ==
    [][\A t \in Tasks :
         /\ (pc[t] = "waitErr" /\ pc'[t] # "waitErr")
              => /\ tasks'[t].Status = TaskFailed
                 /\ pc'[t] = IF cancelClosed THEN "cleanup" ELSE "failCancel"
                 /\ closeCount' = closeCount
         /\ (pc[t] = "failCancel" /\ pc'[t] # "failCancel")
              => /\ tasks'[t].Status = TaskFailed
                 /\ cancelClosed'
                 /\ closeCount' = IF cancelClosed THEN closeCount ELSE closeCount + 1
    ]_vars

\* C11 witness: one task's failed child has triggered the token, and another
\* task, whose cmd.Wait had returned an error by then, is Failed without a
\* second close
C11_Witness ==
    /\ cancelCause = "failure"
    /\ closeCount = 1
    /\ \E t, u \in Tasks :
         /\ t # u
         /\ cancelSnap[t].pc = "cleanup" /\ cancelSnap[t].status = TaskFailed
         /\ child[t] = "reaped"
         /\ cancelSnap[u].pc = "waitErr"
         /\ pc[u] = "cleanup" /\ StatusOf(u) = TaskFailed

\* the tasks whose pipes or cmd.Start failed
StartFailed == {t \in Tasks : child[t] = "startFailed"}

\* C12 (as claimed): a task whose process could not be started, or whose pipes
\* could not be created, is Failed and the token is triggered by the time the
\* task's goroutine is done with it
C12_StartFailureTriggers ==
    \A t \in StartFailed :
        pc[t] \in {"release", "returned"} => (StatusOf(t) = TaskFailed /\ cancelClosed)

Forward == {<<TaskPending, TaskRunning>>, <<TaskPending, TaskFailed>>,
            <<TaskRunning, TaskCompleted>>, <<TaskRunning, TaskFailed>>}

\* C13: a task's status changes only along Pending -> Running -> Completed or
\* Failed, or Pending -> Failed, and its end time is written in exactly the
\* steps that take it into Completed or Failed, hence once
C13_StatusForward ==
    [][\A t \in DOMAIN tasks :
         /\ tasks'[t].Status # tasks[t].Status
              => <<tasks[t].Status, tasks'[t].Status>> \in Forward
         /\ tasks'[t].EndTime =
              IF tasks'[t].Status # tasks[t].Status
                 /\ tasks'[t].Status \in {TaskCompleted, TaskFailed}
              THEN tasks[t].EndTime + 1 ELSE tasks[t].EndTime
         /\ tasks'[t].EndTime <= 1
    ]_vars

\* C13 witness: a run has ended with a Completed task and a Failed task, each
\* with its end time written once
C13_Witness ==
    /\ runPc = "done"
    /\ \E t, u \in Tasks :
         /\ StatusOf(t) = TaskCompleted /\ tasks[t].EndTime = 1
         /\ StatusOf(u) = TaskFailed /\ tasks[u].EndTime = 1

\* C14: once the token is triggered it stays triggered, and however many times
\* cancelTasks is called (by failing tasks, by monitor, by handleInterrupt),
\* close(r.cancelChan) is executed at most once: exactly once iff triggered
C14_TokenOneShot ==
    [][/\ cancelClosed => cancelClosed'
       /\ closeCount' <= 1
       /\ cancelClosed' <=> (closeCount' = 1)
    ]_vars

\* C14 witness: a failing task has triggered the token, and monitor and
\* handleInterrupt have both called cancelTasks after it
C14_Witness ==
    /\ cancelCause = "failure"
    /\ outputFile = "nil"
    /\ cancelClosed
    /\ closeCount = 1

\* C15 (as claimed): when Run has reached its summary, every task is Completed
\* or Failed
C15_AllTerminalAtSummary ==
    runPc \in {"summary", "done"}
        => \A t \in Tasks : StatusOf(t) \in {TaskCompleted, TaskFailed}

\* the task's goroutine is past the deferred cleanupFunc
Finished(t) == pc[t] \in {"release", "returned"}

\* C16: when the goroutine of a task is past its cleanup, however the task
\* ended, neither the task's chunk file nor its temp output file is on disk
C16_NoArtifactsLeft ==
    \A t \in Tasks : Finished(t) => (~tempFile[t] /\ ~chunkFile[t])

\* C16 witness: a multiple-mode task that staged a chunk file, was running when
\* another task's failure triggered the token, and whose killed child had
\* written a temp output file, has finished Failed
C16_Witness ==
    /\ mode = "multiple" /\ ~useStdout
    /\ cancelCause = "failure"
    /\ \E t \in Tasks :
         /\ cancelSnap[t].pc = "wait"
         /\ pc[t] = "returned"
         /\ StatusOf(t) = TaskFailed
         /\ \E i \in 1..Len(sink) : sink[i] = <<"tmp", t, <<"x", "\n">>>>
         /\ ~tempFile[t] /\ ~chunkFile[t]

\* the position of the first newline of c, 0 if there is none
FirstNewline(c) ==
    IF \E i \in 1..Len(c) : c[i] = "\n"
    THEN CHOOSE i \in 1..Len(c) : c[i] = "\n" /\ \A j \in 1..(i - 1) : c[j] # "\n"
    ELSE 0

FirstLine(c) == IF FirstNewline(c) = 0 THEN c ELSE SubSeq(c, 1, FirstNewline(c) - 1)

AfterFirstLine(c) ==
    IF FirstNewline(c) = 0 THEN <<>> ELSE SubSeq(c, FirstNewline(c) + 1, Len(c))

\* the sink after the one append of d by task t (no append of nothing)
SinkWith(t, d) == IF d = <<>> THEN <<>> ELSE << <<"tmp", t, d>> >>

\* C17 (as claimed): after the cleanup of a successful task of a tool that
\* manages its own output, the sink holds the temp file's content without a
\* first line equal to the declared header, the rest unchanged, and the temp
\* file is gone
C17_SpliceHeaderRemoved ==
    \A t \in Tasks :
        (Finished(t) /\ ~useStdout /\ StatusOf(t) = TaskCompleted)
            => /\ sink = SinkWith(t, IF header # <<>> /\ FirstLine(toolOutput) = header
                                     THEN AfterFirstLine(toolOutput)
                                     ELSE toolOutput)
               /\ ~tempFile[t]

\* what C17 as amended expects to be appended: the content, without its first
\* line if that line is the header once white space is trimmed from its ends
SpliceBody ==
    IF header # <<>> /\ TrimSpace(FirstLine(toolOutput)) = header
    THEN AfterFirstLine(toolOutput)
    ELSE toolOutput

\* r is b without the null bytes at its start and at its end
NulTrimmed(b, r) ==
    \E m, n \in 0..Len(b) :
        /\ m + n <= Len(b)
        /\ \A i \in 1..m : b[i] = NUL
        /\ \A i \in (Len(b) - n + 1)..Len(b) : b[i] = NUL
        /\ r = SubSeq(b, m + 1, Len(b) - n)
        /\ r # <<>> => (r[1] # NUL /\ r[Len(r)] # NUL)

\* C17 (amended): the first line goes when it equals the header after white
\* space is trimmed from it, the null bytes at the start and at the end of what
\* remains are dropped, the rest is appended unchanged (nothing is appended
\* when nothing is left), and the temp file is gone
C17_SpliceAmended ==
    \A t \in Tasks :
        (Finished(t) /\ ~useStdout /\ StatusOf(t) = TaskCompleted)
            => /\ LET r == IF sink = <<>> THEN <<>> ELSE sink[1][3]
                  IN NulTrimmed(SpliceBody, r) /\ sink = SinkWith(t, r)
               /\ ~tempFile[t]

\* C17 witness: a temp file of the header, a line and a trailing null byte has
\* been spliced: the line alone is in the sink
C17_Witness ==
    /\ header = <<"h">>
    /\ toolOutput = <<"h", "\n", "x", NUL>>
    /\ pc = <<"release">>
    /\ sink = << <<"tmp", 1, <<"x">>>> >>
    /\ tempFile = <<FALSE>>

\* the bytes call k of task t's goroutines has put into the file, in file order
CallBytes(t, k) == SelectSeq(fileBytes, LAMBDA b : b.by = t /\ b.call = k)

\* what each call passes in a run of SinkSpec
CallContent == IF useStdout THEN StdoutLine ELSE cleanupContent(toolOutput, header)

\* C18: the bytes of one call of writeToOutput are in the file in one block, in
\* the order of the content and with no byte of another call between them; a
\* call that has returned has put its whole content there, which for the
\* empty content is nothing
C18_AppendsAtomic ==
    /\ \A i, j \in 1..Len(fileBytes) :
          (i < j /\ fileBytes[i].by = fileBytes[j].by
                 /\ fileBytes[i].call = fileBytes[j].call)
              => fileBytes[j].at = fileBytes[i].at + (j - i)
    /\ \A t \in DOMAIN wcalls : \A k \in 1..wcalls[t] :
          [m \in 1..Len(CallBytes(t, k)) |-> CallBytes(t, k)[m].ch] = CallContent

\* C18 witness: one caller has written the first byte of its content while
\* another, with a content of several bytes, waits for the mutex
C18_Witness ==
    \E w, v \in DOMAIN wpc :
        /\ w # v
        /\ wpc[w] = "write" /\ wwritten[w] = 1
        /\ wpc[v] = "lock" /\ Len(wcontent[v]) >= 2

\* the goroutine of Run as a holder of the mutex
RunHolder == <<"Run", 0>>

\* C19 (as claimed): once task goroutines have been started, a step that closes
\* the output file or sets the handle to nil is taken by a goroutine that holds
\* outputMutex; such steps are Run's own (handleInterrupt, the deferred close)
C19_HandleUnderMutex ==
    [][(Tasks # {} /\ outputFile' # outputFile) => outputMutex = RunHolder]_vars

\* C20 (as claimed): createTasks and runTasks are entered with Workers >= 1
\* only, so that neither panics and the semaphore has room for a task
C20_WorkersValidated ==
    /\ runPc # "panic"
    /\ runPc = "runTasks" => workers >= 1
\* C21: a signal delivered during a run has Runner.handleInterrupt invoked,
\* whether or not the token was also triggered by a task's failure: monitor,
\* entering its select with a signal pending, leaves it only through the
\* interrupt case of lines 460-463
C21_SignalInvokesHandler ==
    [][(runPc = "monitor" /\ interruptChan = 1)
          => runPc' \in {"monitor", "handleInterrupt"}]_vars

\* C22: once the output file is created nothing deletes or truncates it (what
\* it holds is only ever extended), and handleInterrupt closes the file,
\* forgets the handle and returns no error
C22_OutputKept ==
    [][/\ Len(sink') >= Len(sink)
       /\ SubSeq(sink', 1, Len(sink)) = sink
       /\ (runPc = "handleInterrupt" /\ runPc' # "handleInterrupt")
             => (outputFile' = "nil" /\ runErr' = "nil")]_vars

\* handleInterrupt has returned and the partial results are in the file
C22_Witness ==
    /\ runPc \in {"summary", "done"}
    /\ outputFile = "nil"
    /\ sink # <<>>

\* C24: once the worker pool has started, Run returns nil whatever happened
\* to the tasks: an error exit, a failed start, a staging error or a
\* cancellation is recorded as the task's Failed status only
C24_RunReturnsNil ==
    runPc = "done" => runErr = "nil"

\* Run has returned after a task failed, and after a cancellation
C24_Witness ==
    /\ runPc = "done"
    /\ cancelClosed
    /\ \E t \in Tasks : StatusOf(t) = TaskFailed

\* C23: when NewRunner or the set-up of Run has failed (tool not in the
\* catalog, backup not possible, output directory or file not creatable,
\* input not readable) the worker pool has not been started: no task exists
\* outside Pending and no child process has been launched
C23_SetupErrorBeforePool ==
    abortedBy # "none" =>
        /\ runPc = "setup"
        /\ bpc \in {"idle", "exit"}
        /\ \A t \in Tasks : StatusOf(t) = TaskPending
        /\ \A t \in DOMAIN child : child[t] = "none"

\* the input could not be read, after the old output was moved aside and the
\* new output file created
C23_Witness ==
    /\ abortedBy = "read"
    /\ backedUp # {}
    /\ files[OutputPath] = <<"run", runNo>>
    /\ outputFile = "closed"

\* C25: a task is Completed only after both of its forwarding goroutines have
\* ended: no stdout or stderr forwarder of a Completed task is still running
C25_CompletedAfterForwarders ==
    \A t \in Tasks :
        StatusOf(t) = TaskCompleted => (outFwd[t] = "done" /\ errFwd[t] = "done")

\* C26: the stdout lines of one task are in the sink in the order in which the
\* child wrote them, none of them twice, however the lines of other tasks
\* come in between
C26_LinesInOrder ==
    \A i, j \in 1..Len(sink) :
        (i < j /\ sink[i][1] = "out" /\ sink[j][1] = "out" /\ sink[i][2] = sink[j][2])
            => sink[i][3] < sink[j][3]

\* all the lines of one task are in the sink, with a line of another task
\* between two of them
C26_Witness ==
    \E t, u \in Tasks :
        /\ t # u
        /\ \A k \in 1..MaxEmit : \E i \in 1..Len(sink) : sink[i] = <<"out", t, k>>
        /\ \E i, j, l \in 1..Len(sink) :
              /\ i < j /\ j < l
              /\ sink[i][2] = t /\ sink[j][2] = u /\ sink[l][2] = t

\* C27: what the run appends to the sink is a stdout line of a task of a tool
\* with use_stdout, or the temp-file content (as cleanupFunc passes it on) of
\* a task of a tool without: no stderr line, and no stdout line of a tool
\* that manages its own output
C27_SinkSources ==
    \A i \in 1..Len(sink) :
        \/ /\ useStdout
           /\ \E t \in Tasks : \E k \in 1..emitted[t] : sink[i] = <<"out", t, k>>
        \/ /\ ~useStdout
           /\ \E t \in Tasks : sink[i] = <<"tmp", t, cleanupContent(toolOutput, header)>>

\* a tool that manages its own output has printed a line on stdout, which its
\* forwarder has read, and the sink holds the task's temp-file content only
C27_Witness ==
    /\ ~useStdout
    /\ \E t \in Tasks :
          /\ scanned[t] > 0
          /\ outFwd[t] = "done"
          /\ sink = <<<<"tmp", t, cleanupContent(toolOutput, header)>>>>

\* C28: a staging error of a task makes that task Failed and nothing else: the
\* token is not triggered, no other task's status, position or child changes,
\* and the task, on its way out, never gets a child process
C28_StagingErrorLocal ==
    [][\A t \in Tasks :
         /\ (pc[t] = "stage" /\ pc'[t] = "cleanup") =>
               /\ tasks'[t].Status = TaskFailed
               /\ cancelClosed' = cancelClosed
               /\ \A u \in Tasks \ {t} :
                     tasks'[u] = tasks[u] /\ pc'[u] = pc[u] /\ child'[u] = child[u]
         /\ (pc[t] \in {"stage", "cleanup", "release", "returned"} /\ child[t] = "none"
               /\ pc'[t] \in {"cleanup", "release", "returned"}) => child'[t] = "none"]_vars

\* a task has failed in staging and is gone without a child, the token is
\* untouched and a sibling has completed
C28_Witness ==
    \E t, u \in Tasks :
        /\ mode = "multiple"
        /\ StatusOf(t) = TaskFailed /\ child[t] = "none" /\ pc[t] = "returned"
        /\ ~cancelClosed
        /\ StatusOf(u) = TaskCompleted

\* C29: once the token is triggered no child process is launched any more: a
\* task without a child gets none in any later step, wherever the trigger
\* falls between its pre-launch checks and its cmd.Start
C29_NoLaunchAfterTrigger ==
    [][\A t \in Tasks :
         (cancelClosed /\ child[t] = "none") => child'[t] # "running"]_vars

\* C30: once the token is triggered every task goroutine comes to its end and
\* runTasks returns, as long as goroutines are scheduled and a killed child
\* exits: the waiting tasks leave the select, the live children are killed
C30_CancelTerminates ==
    cancelClosed ~> (/\ \A t \in Tasks : pc[t] = "returned"
                     /\ runPc \notin {"createTasks", "runTasks"})

\* runTasks has returned after a trigger that found a task waiting for its
\* child in cmd.Wait and another task still in the select of runTasks
C30_Witness ==
    /\ cancelClosed
    /\ runPc = "monitor"
    /\ \A t \in Tasks : pc[t] = "returned"
    /\ \E t \in Tasks : cancelSnap[t].pc = "wait" /\ cancelSnap[t].status = TaskRunning
                           /\ StatusOf(t) = TaskFailed
    /\ \E t \in Tasks : cancelSnap[t].pc \in {"select", "parked"}

\* C31: the header line of a tool that declares one is in the output file
\* before any task exists, and so before any append of a task: the file
\* starts with it; with no header declared the file starts with what the
\* tasks append
C31_HeaderFirst ==
    (Tasks # {} \/ sink # <<>> \/ bpc = "pool") =>
        headerLine = IF header = <<>> THEN <<>> ELSE header \o <<"\n">>

\* a task has appended to the file of a tool with a header
C31_Witness ==
    /\ bpc = "pool"
    /\ header # <<>>
    /\ headerLine = <<"h", "\n">>
    /\ sink # <<>>

\* a blank line: empty, or of white space only
Blank(line) == TrimSpace(line) = <<>>

\* C32 (as claimed): for an input without a non-blank line, once createTasks
\* has run there is no task and no child process, nothing is appended to the
\* output file after the header line (nothing without a header), and the run
\* that has ended has ended with no error
C32_EmptyInputCompletes ==
    (/\ bpc = "pool" /\ runPc # "createTasks"
     /\ \A i \in DOMAIN rawInput : Blank(rawInput[i]))
        => /\ tasks = <<>> /\ child = <<>>
           /\ sink = <<>>
           /\ headerLine = (IF header = <<>> THEN <<>> ELSE header \o <<"\n">>)
           /\ runPc = "done" => runErr = "nil"

\* C33: what cleanup has spliced into the sink from a temp output file holds
\* no null byte, wherever in the file the null bytes were
C33_NoNullByteSpliced ==
    \A i \in 1..Len(sink) :
        sink[i][1] = "tmp" => \A k \in 1..Len(sink[i][3]) : sink[i][3][k] # NUL

\* the lines of the chunk file staged for task k of a run in multiple mode
ChunkOf(k) == chunkLoop(RangeOf(k).startLine, RangeOf(k).endLine, inputLines(totalLines))

RECURSIVE AllChunks(_)
\* the chunk files of tasks 1..k, one after the other
AllChunks(k) == IF k = 0 THEN <<>> ELSE AllChunks(k - 1) \o ChunkOf(k)

\* C34: in multiple mode the payload of every task decodes to the range
\* createTasks gave it (and lines_a_b decodes to a, b for all line numbers),
\* the chunk file of a task holds the input lines start..end in order, and
\* the chunk files of all tasks together hold every input line exactly once
C34_RangeRoundTrip ==
    /\ \A a, b \in 0..MaxPartLines :
          parseLineRange(RangePayload(a, b)) = [ok |-> TRUE, startLine |-> a, endLine |-> b]
    /\ (runPc = "runTasks" /\ mode = "multiple" /\ totalLines >= 1) =>
          LET cs == ChunkSize(totalLines, workers)
          IN /\ \A k \in Tasks :
                  LET a == (k - 1) * cs
                      b == (IF k * cs > totalLines THEN totalLines ELSE k * cs) - 1
                  IN /\ RangeOf(k) = [ok |-> TRUE, startLine |-> a, endLine |-> b]
                     /\ ChunkOf(k) = [j \in 1..(b - a + 1) |-> InputLine(a + j - 1)]
             /\ AllChunks(Len(tasks)) = inputLines(totalLines)

\* a line number of two digits is in a payload, and the last chunk is
\* shorter than the others
C34_Witness ==
    /\ runPc = "runTasks" /\ mode = "multiple"
    /\ Len(tasks) >= 3
    /\ RangeOf(Len(tasks)).endLine >= 10
    /\ Len(ChunkOf(Len(tasks))) < Len(ChunkOf(1))

\* the number of lines of task k's range
RangeLen(k) == RangeOf(k).endLine - RangeOf(k).startLine + 1

\* C35: in multiple mode with totalLines >= 1 and W >= 1 the chunk size is
\* ceil(totalLines / W), at least 1; every task but the last covers chunkSize
\* lines and the last between 1 and chunkSize; there are ceil(totalLines /
\* chunkSize) tasks; 10 lines and 4 workers give 0-2, 3-5, 6-8, 9-9
C35_ChunkSizeCeil ==
    (runPc = "runTasks" /\ mode = "multiple" /\ totalLines >= 1 /\ workers >= 1) =>
        LET cs == ChunkSize(totalLines, workers)
            N  == Len(tasks)
        IN /\ cs >= 1
           /\ cs * workers >= totalLines /\ (cs - 1) * workers < totalLines
           /\ \A k \in 1..(N - 1) : RangeLen(k) = cs
           /\ N >= 1 /\ RangeLen(N) >= 1 /\ RangeLen(N) <= cs
           /\ N * cs >= totalLines /\ (N - 1) * cs < totalLines
           /\ (totalLines = 10 /\ workers = 4) =>
                 /\ cs = 3
                 /\ [k \in 1..N |-> tasks[k].InputData]
                      = <<RangePayload(0, 2), RangePayload(3, 5),
                          RangePayload(6, 8), RangePayload(9, 9)>>

\* the scenario of 10 lines and 4 workers
C35_Witness ==
    /\ runPc = "runTasks" /\ mode = "multiple"
    /\ totalLines = 10 /\ workers = 4
    /\ Len(tasks) = 4
    /\ RangeLen(4) = 1

\* the number of temp-file splices of task t in the sink
SplicesOf(t) ==
    Cardinality({i \in 1..Len(sink) : sink[i][1] = "tmp" /\ sink[i][2] = t})

\* C36: cleanup is idempotent. A strategy's Cleanup of a chunk file that is not
\* there returns no error and leaves it absent, and so does a second Cleanup
\* after a first; cleanupFunc run again for a task it has run for changes no
\* task's status, splices nothing more and leaves both files absent
C36_CleanupIdempotent ==
    [][\A t \in Tasks :
         /\ LET r1 == StrategyCleanup(chunkFile, t)
                r2 == StrategyCleanup(r1.files, t)
            IN /\ ~chunkFile[t] => (r1.err = "nil" /\ r1.files = chunkFile)
               /\ r2.err = "nil" /\ r2.files = r1.files /\ ~r2.files[t]
         /\ CleanupAgain(t) =>
               /\ tasks' = tasks
               /\ SplicesOf(t)' = SplicesOf(t)
               /\ ~tempFile'[t] /\ ~chunkFile'[t]]_vars

\* C36 witness: a task whose temp output file was spliced and removed, and
\* whose chunk file was removed, by cleanupFunc is where cleanupFunc can run again,
\* and another task whose tool wrote no temp output file has been cleaned up
C36_Witness ==
    /\ mode = "multiple" /\ ~useStdout
    /\ \E t, u \in Tasks :
         /\ t # u
         /\ pc[t] = "release" /\ SplicesOf(t) = 1 /\ ~tempFile[t] /\ ~chunkFile[t]
         /\ pc[u] = "release" /\ SplicesOf(u) = 0
\* the flags of arjun that name its output
OutputFlags == {FlagO, FlagOJ, FlagOT, FlagOB}

\* the positions of argv whose word follows an output flag
OutputArgs(cmdParts) ==
    {i \in 2..Len(cmdParts) : cmdParts[i - 1] \in OutputFlags}

\* C37 (as claimed): whatever the user arguments, the path returned for a task
\* index is the same, and it is in the returned argv as the argument of an
\* output flag
C37_TempPathInArgv ==
    built.cmdParts # <<>> =>
        /\ built.tempOutputFile =
               BuildCommandWithFileOutput(ChunkPath(built.taskIndex), <<>>, built.taskIndex).tempOutputFile
        /\ \E i \in OutputArgs(built.cmdParts) : built.cmdParts[i] = built.tempOutputFile
\* C38: while monitor or handleInterrupt executes, every task goroutine has
\* finished: no task is waiting for a slot or anywhere else in its goroutine,
\* and no task is Running
C38_MonitorAfterTasks ==
    runPc \in {"monitor", "handleInterrupt"} =>
        \A t \in Tasks : pc[t] = "returned" /\ StatusOf(t) # TaskRunning

\* C38 witness: handleInterrupt executes after a run of at least two tasks, one
\* of them Completed
C38_Witness ==
    /\ runPc = "handleInterrupt"
    /\ Len(tasks) >= 2
    /\ \E t \in Tasks : StatusOf(t) = TaskCompleted /\ pc[t] = "returned"
\* the steps of Run that reach a Close of the output file: the cleanup of
\* handleInterrupt, the deferred function when Run returns after monitor, and
\* the deferred function when readInputFile has failed
HandleInterruptStep == runPc = "handleInterrupt" /\ runPc' = "summary"

RunReturnStep == runPc = "summary" /\ runPc' = "done"

ReadErrorStep == bpc = "body" /\ runPc = "setup" /\ abortedBy' = "read"

\* C39: once the output file is created its handle is closed exactly once. A
\* step that finds the handle non-nil and calls Close finds it open and closes
\* it, the handle is not open when Run has returned, it is closed by no other
\* step, and a closed or cleared handle is never open again
C39_ClosedOnce ==
    [][/\ ((HandleInterruptStep \/ RunReturnStep \/ ReadErrorStep) /\ outputFile # "nil") =>
             (outputFile = "open" /\ outputFile' # "open")
       /\ (RunReturnStep \/ ReadErrorStep) => outputFile' # "open"
       /\ (outputFile = "open" /\ outputFile' # "open") =>
             (HandleInterruptStep \/ RunReturnStep \/ ReadErrorStep)
       /\ outputFile = "closed" => outputFile' = "closed"
       /\ (outputFile = "nil" /\ runPc \in {"summary", "done"}) => outputFile' = "nil"]_vars

\* C39 witness: Run has returned after handleInterrupt closed the file of a
\* run with at least one task, the deferred function having found the handle nil
C39_Witness ==
    /\ runPc = "done"
    /\ cancelCause = "interrupt"
    /\ outputFile = "nil"
    /\ headerLine # <<>>
    /\ Len(tasks) >= 1
\* a goroutine is in writeToOutput at the WriteString of line 441
AtWriteString(t) == wpc[t] = "write"

\* C40 (as claimed): once the output file is closed, by the deferred function
\* of Run or by handleInterrupt, and while Run has not returned, no goroutine
\* is at the WriteString of writeToOutput: every append was made before
C40_NoAppendAfterClose ==
    (outputFile # "open" /\ LiveRun) => \A t \in Tasks : ~AtWriteString(t)
====
